---- MODULE Spec2Model ----
(***************************************************************************)
(* A model of Tykon, the TypeScript-declaration to Kotlin/JS-external      *)
(* generator: the type mapper and name resolver of src/src/utils.ts and    *)
(* the emitters and the unit orchestrator of src/src/generator.ts (the     *)
(* current revision, lines 1-777).  TypeScript strings are TLA+ strings;   *)
(* the white space of the modelled texts is the blank, the tab and the     *)
(* line feed.                                                              *)
(***************************************************************************)
EXTENDS Integers, Sequences, FiniteSets, TLC

VARIABLES unnamedCounter, currentConstants, typeAliases, invocations, call, result,
          synthesized, configObject

vars == <<unnamedCounter, currentConstants, typeAliases, invocations, call, result,
          synthesized, configObject>>

(***************************************************************************)
(* JavaScript string and array primitives used by the source.              *)
(***************************************************************************)
\* The characters i..j of s (1-based, inclusive), clipped to s as
\* String.prototype.substring and slice clip their arguments.
Sub(s, i, j) ==
    LET lo == IF i < 1 THEN 1 ELSE i
        hi == IF j > Len(s) THEN Len(s) ELSE j
    IN  IF lo > hi THEN "" ELSE SubSeq(s, lo, hi)

StartsWith(s, p) == Len(s) >= Len(p) /\ Sub(s, 1, Len(p)) = p

EndsWith(s, p) == Len(s) >= Len(p) /\ Sub(s, Len(s) - Len(p) + 1, Len(s)) = p

\* String.prototype.indexOf, 1-based; 0 when p does not occur at or after from.
RECURSIVE IndexOfFrom(_, _, _)
IndexOfFrom(s, p, from) ==
    IF from > Len(s) - Len(p) + 1 THEN 0
    ELSE IF Sub(s, from, from + Len(p) - 1) = p THEN from
    ELSE IndexOfFrom(s, p, from + 1)

IndexOf(s, p) == IndexOfFrom(s, p, 1)

\* The last occurrence of p in s that starts at or before from; 0 when none.
RECURSIVE LastIndexOfFrom(_, _, _)
LastIndexOfFrom(s, p, from) ==
    IF from < 1 THEN 0
    ELSE IF Sub(s, from, from + Len(p) - 1) = p THEN from
    ELSE LastIndexOfFrom(s, p, from - 1)

\* String.prototype.lastIndexOf, 1-based; 0 when p does not occur.
LastIndexOf(s, p) == LastIndexOfFrom(s, p, Len(s) - Len(p) + 1)

Includes(s, p) == IndexOf(s, p) # 0

WhiteSpace == {" ", "\n", "\t"}

\* The first position at or after i that holds no white space (Len(s) + 1 when none).
RECURSIVE FirstSolid(_, _)
FirstSolid(s, i) ==
    IF i > Len(s) \/ Sub(s, i, i) \notin WhiteSpace THEN i ELSE FirstSolid(s, i + 1)

\* The last position at or before i that holds no white space (0 when none).
RECURSIVE LastSolid(_, _)
LastSolid(s, i) ==
    IF i < 1 \/ Sub(s, i, i) \notin WhiteSpace THEN i ELSE LastSolid(s, i - 1)

\* String.prototype.trim.
Trim(s) == Sub(s, FirstSolid(s, 1), LastSolid(s, Len(s)))

\* String.prototype.split on a non-empty separator.
RECURSIVE Split(_, _)
Split(s, sep) ==
    LET i == IndexOf(s, sep)
    IN  IF i = 0 THEN <<s>>
        ELSE <<Sub(s, 1, i - 1)>> \o Split(Sub(s, i + Len(sep), Len(s)), sep)

\* Array.prototype.join.
RECURSIVE Join(_, _)
Join(parts, sep) ==
    IF Len(parts) = 0 THEN ""
    ELSE IF Len(parts) = 1 THEN parts[1]
    ELSE parts[1] \o sep \o Join(Tail(parts), sep)

\* String.prototype.replace with a string pattern: the first occurrence only.
ReplaceFirst(s, p, r) ==
    LET i == IndexOf(s, p)
    IN  IF i = 0 THEN s
        ELSE Sub(s, 1, i - 1) \o r \o Sub(s, i + Len(p), Len(s))

\* Array.prototype.includes.
SeqIncludes(xs, x) == \E i \in 1..Len(xs) : xs[i] = x

\* xs.filter((t, index) => xs.indexOf(t) === index): first occurrences, in order.
RECURSIVE UniqueFrom(_, _)
UniqueFrom(xs, i) ==
    IF i > Len(xs) THEN <<>>
    ELSE (IF \E j \in 1..(i - 1) : xs[j] = xs[i] THEN <<>> ELSE <<xs[i]>>)
         \o UniqueFrom(xs, i + 1)

Unique(xs) == UniqueFrom(xs, 1)

\* Array.prototype.filter(Boolean) on an array of strings and nulls; a null of
\* the source is written "" here, which filter(Boolean) drops just the same.
RECURSIVE FilterBoolean(_)
FilterBoolean(xs) ==
    IF Len(xs) = 0 THEN <<>>
    ELSE (IF Head(xs) = "" THEN <<>> ELSE <<Head(xs)>>) \o FilterBoolean(Tail(xs))

\* String.prototype.replace(/"/g, ''): every occurrence of the character c removed.
RECURSIVE RemoveAll(_, _)
RemoveAll(s, c) ==
    IF Len(s) = 0 THEN ""
    ELSE (IF Sub(s, 1, 1) = c THEN "" ELSE Sub(s, 1, 1))
         \o RemoveAll(Sub(s, 2, Len(s)), c)

Digits == {"0", "1", "2", "3", "4", "5", "6", "7", "8", "9"}

\* /^\d+$/
IsDigits(s) == Len(s) > 0 /\ \A i \in 1..Len(s) : Sub(s, i, i) \in Digits

(***************************************************************************)
(* utils.ts: the lookup tables of the type mapper.                         *)
(***************************************************************************)
types ==
    [k \in {"string", "number", "bigint", "boolean", "any", "object", "void",
            "undefined", "null", "never", "unknown", "Int8Array", "Uint8Array",
            "Uint8Array<ArrayBuffer>", "Uint8Array<ArrayBufferLike>",
            "Uint8ClampedArray", "Int16Array", "Uint16Array", "Int32Array",
            "Uint32Array", "Float32Array", "Float64Array", "this", "Record",
            "void | Promise<void>", "void | undefined", "ArrayBufferLike",
            "ArrayBuffer | ArrayBufferView<ArrayBuffer>",
            "ArrayBuffer | ArrayBufferView", "Function",
            "AsyncIterableIterator", "IterableIterator"} |->
        CASE k = "string" -> "String"
          [] k = "number" -> "Double"
          [] k = "bigint" -> "Long"
          [] k = "boolean" -> "Boolean"
          [] k \in {"any", "object", "unknown"} -> "Any"
          [] k \in {"void", "undefined", "null"} -> "Unit"
          [] k = "never" -> "Nothing"
          [] k \in {"Int8Array", "Uint8Array", "Uint8Array<ArrayBuffer>",
                    "Uint8Array<ArrayBufferLike>", "Uint8ClampedArray"} -> "ByteArray"
          [] k \in {"Int16Array", "Uint16Array"} -> "ShortArray"
          [] k \in {"Int32Array", "Uint32Array"} -> "IntArray"
          [] k = "Float32Array" -> "FloatArray"
          [] k = "Float64Array" -> "DoubleArray"
          [] k = "this" -> "dynamic"
          [] k = "Record" -> "Map"
          [] k \in {"void | Promise<void>", "void | undefined"} -> "Unit"
          [] k \in {"ArrayBufferLike", "ArrayBuffer | ArrayBufferView<ArrayBuffer>",
                    "ArrayBuffer | ArrayBufferView"} -> "ArrayBuffer"
          [] k = "Function" -> "Function<Unit>"
          [] k = "AsyncIterableIterator" -> "AsyncIterator"
          [] k = "IterableIterator" -> "Iterator"]

\* types is an object literal: types[k] for a k that is no key of its own is
\* the member of that name Object.prototype has, a function but for __proto__,
\* which is Object.prototype itself.  The table gives what String() makes of
\* each member.
objectPrototype ==
    [k \in {"constructor", "hasOwnProperty", "isPrototypeOf", "propertyIsEnumerable",
            "toLocaleString", "toString", "valueOf", "__defineGetter__",
            "__defineSetter__", "__lookupGetter__", "__lookupSetter__", "__proto__"} |->
        CASE k = "constructor" -> "function Object() { [native code] }"
          [] k = "__proto__" -> "[object Object]"
          [] OTHER -> "function " \o k \o "() { [native code] }"]

innerTypes == <<"Readonly", "Partial", "Required">>

\* splitGenerics: split at the commas outside angle brackets and quotes.
RECURSIVE splitGenericsFrom(_, _, _, _, _, _)
splitGenericsFrom(input, i, current, depth, inString, stringChar) ==
    IF i > Len(input)
    THEN (IF Trim(current) # "" THEN <<Trim(current)>> ELSE <<>>)
    ELSE LET char == Sub(input, i, i)
         IN  IF (char = "\"" \/ char = "'") /\ ~inString
             THEN splitGenericsFrom(input, i + 1, current \o char, depth, TRUE, char)
             ELSE IF char = stringChar /\ inString
             THEN splitGenericsFrom(input, i + 1, current \o char, depth, FALSE, stringChar)
             ELSE IF inString
             THEN splitGenericsFrom(input, i + 1, current \o char, depth, inString, stringChar)
             ELSE IF char = "<"
             THEN splitGenericsFrom(input, i + 1, current \o char, depth + 1, inString, stringChar)
             ELSE IF char = ">"
             THEN splitGenericsFrom(input, i + 1, current \o char, depth - 1, inString, stringChar)
             ELSE IF char = "," /\ depth = 0
             THEN <<Trim(current)>>
                  \o splitGenericsFrom(input, i + 1, "", depth, inString, stringChar)
             ELSE splitGenericsFrom(input, i + 1, current \o char, depth, inString, stringChar)

splitGenerics(input) == splitGenericsFrom(input, 1, "", 0, FALSE, "")

\* extractGenericParts: <<base, args>> of the first balanced <...>, or <<>> for null.
RECURSIVE extractGenericPartsFrom(_, _, _, _)
extractGenericPartsFrom(type, i, depth, start) ==
    IF i > Len(type) THEN <<>>
    ELSE LET char == Sub(type, i, i)
         IN  IF char = "<"
             THEN extractGenericPartsFrom(type, i + 1, depth + 1,
                                          IF depth = 0 THEN i ELSE start)
             ELSE IF char = ">"
             THEN (IF depth - 1 = 0
                   THEN <<Trim(Sub(type, 1, start - 1)),
                          Trim(Sub(type, start + 1, i - 1))>>
                   ELSE extractGenericPartsFrom(type, i + 1, depth - 1, start))
             ELSE extractGenericPartsFrom(type, i + 1, depth, start)

extractGenericParts(type) == extractGenericPartsFrom(type, 1, 0, 0)

(***************************************************************************)
(* utils.ts: convertToKotlinType.  The operator returns the mapped text    *)
(* and the set of quoted literals the call and its recursive calls pass to *)
(* currentConstants.set (each with the value slice(1, -1) of its key).     *)
(* value tells what the call hands back: a string, a member inherited from *)
(* Object.prototype (text is then what String() makes of it), or a         *)
(* TypeError thrown in place of a return.                                  *)
(***************************************************************************)
R(t, l) == [text |-> t, lits |-> l, value |-> "string"]

\* return types[type] where types[type] is a member of Object.prototype.
Inherited(type) == [text |-> objectPrototype[type], lits |-> {}, value |-> "inherited"]

\* base.includes is not a function: the call throws after the literals l were set.
TypeError(l) == [text |-> "", lits |-> l, value |-> "TypeError"]

\* The calls of converted up to the first that threw.
RECURSIVE UntilThrown(_)
UntilThrown(converted) ==
    IF Len(converted) = 0 THEN <<>>
    ELSE IF Head(converted).value = "TypeError" THEN <<Head(converted)>>
    ELSE <<Head(converted)>> \o UntilThrown(Tail(converted))

\* The outcome of a branch that makes the calls of converted, in order, and
\* then returns r: a TypeError of one of the calls leaves the branch at once.
Raised(converted, r) ==
    IF \E i \in 1..Len(converted) : converted[i].value = "TypeError"
    THEN TypeError(UNION {UntilThrown(converted)[i].lits :
                             i \in 1..Len(UntilThrown(converted))})
    ELSE r

Texts(rs) == [i \in 1..Len(rs) |-> rs[i].text]

Lits(rs) == UNION {rs[i].lits : i \in 1..Len(rs)}

TrimAll(xs) == [i \in 1..Len(xs) |-> Trim(xs[i])]

\* while (type.endsWith('[]')) { arrayDepth++; type = type.slice(0, -2).trim(); }
RECURSIVE PeelArray(_, _)
PeelArray(type, arrayDepth) ==
    IF EndsWith(type, "[]")
    THEN PeelArray(Trim(Sub(type, 1, Len(type) - 2)), arrayDepth + 1)
    ELSE [type |-> type, arrayDepth |-> arrayDepth]

\* for (let i = 0; i < arrayDepth; i++) baseType = `Array<${baseType}>`
RECURSIVE WrapArray(_, _)
WrapArray(baseType, arrayDepth) ==
    IF arrayDepth = 0 THEN baseType
    ELSE WrapArray("Array<" \o baseType \o ">", arrayDepth - 1)

\* /^(.+)\s+extends\s+(.+)\s*\?\s*(.+)\s*:\s*(.+)$/ with greedy groups: <<>> when
\* there is no match, else the trimmed <<constraint, trueType, falseType>>.
conditionalMatch(type) ==
    LET n == Len(type)
        Max(S) == CHOOSE a \in S : \A b \in S : b <= a
        Colons(q) == {c \in (q + 2)..(n - 1) : Sub(type, c, c) = ":"}
        Marks(e) == {q \in (e + 9)..n : Sub(type, q, q) = "?" /\ Colons(q) # {}}
        es == {e \in 3..n : Sub(type, e - 1, e + 7) = " extends " /\ Marks(e) # {}}
    IN  IF es = {} THEN <<>>
        ELSE LET e == Max(es)
                 q == Max(Marks(e))
                 c == Max(Colons(q))
             IN  <<Trim(Sub(type, e + 8, q - 1)),
                   Trim(Sub(type, q + 1, c - 1)),
                   Trim(Sub(type, c + 1, n))>>

\* /^\((.*)\)\s*=>\s*(.+)$/ with a greedy first group: <<>> when there is no
\* match, else <<params, returnType>>.
fnMatch(type) ==
    LET n == Len(type)
        Max(S) == CHOOSE a \in S : \A b \in S : b <= a
        Arrow(p) == {a \in (p + 1)..(n - 2) :
                       /\ Sub(type, a, a + 1) = "=>"
                       /\ Trim(Sub(type, p + 1, a - 1)) = ""}
        ps == {p \in 2..n : Sub(type, p, p) = ")" /\ Arrow(p) # {}}
    IN  IF ~StartsWith(type, "(") \/ ps = {} THEN <<>>
        ELSE LET p == Max(ps)
                 a == Max(Arrow(p))
             IN  <<Sub(type, 2, p - 1), Sub(type, a + 2, n)>>

\* /^(['"]).*\1$/
IsQuotedLiteral(type) ==
    /\ Len(type) >= 2
    /\ Sub(type, 1, 1) \in {"'", "\""}
    /\ Sub(type, Len(type), Len(type)) = Sub(type, 1, 1)

\* /^\d+(\.\d+)?$/
IsNumericLiteral(type) ==
    \/ IsDigits(type)
    \/ \E i \in 2..(Len(type) - 1) :
          /\ Sub(type, i, i) = "."
          /\ IsDigits(Sub(type, 1, i - 1))
          /\ IsDigits(Sub(type, i + 1, Len(type)))

\* type.split('.').pop()
LastSegment(type) == LET parts == Split(type, ".") IN parts[Len(parts)]

\* param => { const [_, paramType] = param.split(':').map(s => s.trim()); ... }
ParamTypeOf(param) ==
    LET parts == TrimAll(Split(param, ":"))
    IN  IF Len(parts) >= 2 /\ parts[2] # "" THEN parts[2] ELSE "Any"

\* if (type === 'Nothing') return null; return type
NothingToNull(xs) == [i \in 1..Len(xs) |-> IF xs[i] = "Nothing" THEN "" ELSE xs[i]]

\* params.map(param => param.split(':').map(s => s.trim())[1] || 'Any')
ParamTypes(params) == [i \in 1..Len(params) |-> ParamTypeOf(params[i])]

\* The opaque fallback ${dynamicType} /* ${type} */.
Opaque(dynamicType, type) == R(dynamicType \o " /* " \o type \o " */", {})

\* uniqueTypes.find((t) => t !== 'undefined' && t !== 'null') as the template
\* literal prints it: the text undefined when there is no such member.
RECURSIVE FindOther(_)
FindOther(uniqueTypes) ==
    IF Len(uniqueTypes) = 0 THEN "undefined"
    ELSE IF Head(uniqueTypes) # "undefined" /\ Head(uniqueTypes) # "null"
    THEN Head(uniqueTypes)
    ELSE FindOther(Tail(uniqueTypes))

\* The union branch once finalType is joined.
unionFinal(finalType, lits, dynamicType) ==
    IF finalType \in DOMAIN types THEN R(types[finalType], lits)
    ELSE R(dynamicType \o " /* " \o finalType \o " */", lits)

\* The union branch from convertedTypes and uniqueTypes on.
unionOf(convertedTypes, uniqueTypes, lits, dynamicType) ==
    IF Len(uniqueTypes) = 1 THEN R(convertedTypes[1], lits)
    ELSE IF Len(uniqueTypes) = 2
            /\ (SeqIncludes(uniqueTypes, "undefined") \/ SeqIncludes(uniqueTypes, "null"))
    THEN R(FindOther(uniqueTypes) \o "?", lits)
    ELSE unionFinal(Join(uniqueTypes, " | "), lits, dynamicType)

\* converted holds the mapping of every member of the union.
convertedUnion(converted, dynamicType) ==
    Raised(converted,
           IF Len(Unique(Texts(converted))) = 1
           THEN [converted[1] EXCEPT !.lits = Lits(converted)]
           ELSE unionOf(Texts(converted), Unique(Texts(converted)), Lits(converted),
                        dynamicType))

\* The conditional branch with the function constraint.
conditionalOf(convertedTrue, convertedFalse, dynamicType, type) ==
    Raised(<<convertedTrue, convertedFalse>>,
           IF convertedFalse.text = "unknown" \/ convertedFalse.text = "Any"
           THEN R(convertedTrue.text \o "?", convertedTrue.lits \cup convertedFalse.lits)
           ELSE R(Opaque(dynamicType, type).text,
                  convertedTrue.lits \cup convertedFalse.lits))

\* The arrow branch: converted holds the mappings of the parameter types.
arrowOf(converted, returnType) ==
    Raised(converted \o <<returnType>>,
           R("(" \o Join(FilterBoolean(NothingToNull(Texts(converted))), ", ")
             \o ") -> " \o returnType.text,
             Lits(converted) \cup returnType.lits))

\* The tuple branch from uniqueInnerTypes on.
tupleOf(uniqueInnerTypes, lits, dynamicType, type) ==
    IF Len(uniqueInnerTypes) = 1 THEN R("Array<" \o uniqueInnerTypes[1] \o ">", lits)
    ELSE R("Array<" \o dynamicType \o "> /* " \o type \o " */", lits)

convertedTuple(converted, dynamicType, type) ==
    Raised(converted,
           tupleOf(Unique(Texts(converted)), Lits(converted), dynamicType, type))

\* if (base.includes('.')) base = base.split('.').pop()
lastIfDotted(base) == IF Includes(base, ".") THEN LastSegment(base) ELSE base

\* types[baseRaw.trim()] ?? baseRaw.trim(), then the modularized name cut, for
\* a base that is no member of Object.prototype.
genericBase(baseRaw) ==
    lastIfDotted(IF baseRaw \in DOMAIN types THEN types[baseRaw] ELSE baseRaw)

\* The generic branch from args on, and the wrapping of the array suffixes.
genericOf(base, args, lits, arrayDepth) ==
    IF Len(args) = 0 THEN R(base, lits)
    ELSE IF SeqIncludes(innerTypes, base) /\ Len(args) = 1
    THEN R(WrapArray(args[1], arrayDepth), lits)
    ELSE R(WrapArray(base \o "<" \o Join(args, ", ") \o ">", arrayDepth), lits)

\* baseType = args[0] hands on the one argument as it is, which the array
\* suffixes then turn into a string.
convertedGeneric(base, converted, arrayDepth) ==
    Raised(converted,
           IF /\ SeqIncludes(innerTypes, base) /\ arrayDepth = 0
              /\ Len(converted) = 1 /\ converted[1].value = "inherited"
           THEN converted[1]
           ELSE genericOf(base, FilterBoolean(NothingToNull(Texts(converted))),
                          Lits(converted), arrayDepth))

RECURSIVE convertToKotlinType(_, _, _)
RECURSIVE convertAll(_, _, _)
convertAll(xs, strict, noDynamic) ==
    IF Len(xs) = 0 THEN <<>>
    ELSE <<convertToKotlinType(Head(xs), strict, noDynamic)>>
         \o convertAll(Tail(xs), strict, noDynamic)

\* convertToKotlinType from extractGenericParts on; type is the text the array
\* suffixes were peeled from.
convertGeneric(type, arrayDepth, generic, strict, noDynamic, dynamicType) ==
    IF generic # <<>>
    THEN (IF generic[1] \in DOMAIN objectPrototype THEN TypeError({})
          ELSE convertedGeneric(genericBase(generic[1]),
                                convertAll(splitGenerics(generic[2]), strict, noDynamic),
                                arrayDepth))
    ELSE IF StartsWith(type, "{") /\ EndsWith(type, "}")
    THEN R(WrapArray(dynamicType \o " /* " \o type \o " */", arrayDepth), {})
    ELSE IF type \in DOMAIN objectPrototype
    THEN R(WrapArray(objectPrototype[type], arrayDepth), {})
    ELSE R(WrapArray(IF type \in DOMAIN types THEN types[type] ELSE type, arrayDepth), {})

\* convertToKotlinType from the array suffixes on.
convertArray(type, arrayDepth, strict, noDynamic, dynamicType) ==
    IF StartsWith(type, "[") /\ EndsWith(type, "]")
    THEN convertedTuple(convertAll(TrimAll(Split(Sub(type, 2, Len(type) - 1), ",")),
                                   strict, noDynamic),
                        dynamicType, type)
    ELSE IF Includes(type, "[") /\ Includes(type, "]")
    THEN Opaque(dynamicType, type)
    ELSE convertGeneric(type, arrayDepth, extractGenericParts(type), strict, noDynamic,
                        dynamicType)

convertPeeled(peeled, strict, noDynamic, dynamicType) ==
    convertArray(peeled.type, peeled.arrayDepth, strict, noDynamic, dynamicType)

\* convertToKotlinType from the conditional types on; cond and fn are the
\* matches of the two regular expressions.
convertMatched(type, cond, fn, strict, noDynamic, dynamicType) ==
    IF cond # <<>> /\ cond[1] = "(...args: any[]) => any"
    THEN conditionalOf(convertToKotlinType(cond[2], strict, noDynamic),
                       convertToKotlinType(cond[3], strict, noDynamic),
                       dynamicType, type)
    ELSE IF fn # <<>>
    THEN arrowOf(convertAll(ParamTypes(splitGenerics(fn[1])), FALSE, FALSE),
                 convertToKotlinType(Trim(fn[2]), strict, noDynamic))
    ELSE IF IsQuotedLiteral(type) THEN R("String", {type})
    ELSE IF IsNumericLiteral(type) THEN R("Double", {})
    ELSE IF type = "true" \/ type = "false" THEN R("Boolean", {})
    ELSE IF StartsWith(type, "{") /\ EndsWith(type, "}") THEN Opaque(dynamicType, type)
    ELSE IF Includes(type, ".") /\ ~Includes(type, "<")
    THEN convertToKotlinType(LastSegment(type), strict, noDynamic)
    ELSE convertPeeled(PeelArray(type, 0), strict, noDynamic, dynamicType)

\* type.slice(lastDotIndex + 1).replace(/"/g, '') of the import branch.
importOf(type, lastDotIndex, dynamicType) ==
    IF lastDotIndex # 0
    THEN R(RemoveAll(Sub(type, lastDotIndex + 1, Len(type)), "\""), {})
    ELSE Opaque(dynamicType, type)

\* convertToKotlinType from the table lookup on; type is originalType.trim().
convertTrimmed(type, strict, noDynamic, dynamicType) ==
    IF type \in DOMAIN types THEN R(types[type], {})
    ELSE IF type \in DOMAIN objectPrototype THEN Inherited(type)
    ELSE IF strict THEN Opaque(dynamicType, type)
    ELSE IF StartsWith(type, "import")
    THEN importOf(type, LastIndexOf(type, "."), dynamicType)
    ELSE IF StartsWith(type, "typeof") \/ StartsWith(type, "new")
            \/ StartsWith(type, "readonly")
    THEN convertToKotlinType(Join(Tail(Split(type, " ")), " "), FALSE, FALSE)
    ELSE IF StartsWith(type, "keyof") \/ StartsWith(type, "Omit<")
            \/ StartsWith(type, "Pick<")
    THEN Opaque(dynamicType, type)
    ELSE IF Includes(type, "&") THEN Opaque(dynamicType, type)
    ELSE IF Includes(type, "|")
    THEN convertedUnion(convertAll(TrimAll(Split(type, "|")), strict, noDynamic),
                        dynamicType)
    ELSE convertMatched(type, conditionalMatch(type), fnMatch(type), strict, noDynamic,
                        dynamicType)

convertToKotlinType(originalType, strict, noDynamic) ==
    IF originalType = "" THEN R("", {})
    ELSE convertTrimmed(Trim(originalType), strict, noDynamic,
                        IF noDynamic THEN "Any" ELSE "dynamic")

\* currentConstants.set(type, type) in place of the slice: the table would
\* keep the quotes of the literal.
SetConstantsQuoted(constants, lits) ==
    [k \in DOMAIN constants \cup lits |-> IF k \in lits THEN k ELSE constants[k]]

\* currentConstants after the literals of one mapping have been set.
SetConstants(constants, lits) ==
    [k \in DOMAIN constants \cup lits |->
        IF k \in lits THEN Sub(k, 2, Len(k) - 1) ELSE constants[k]]

(***************************************************************************)
(* The module-level state of the generator, threaded through the emitters: *)
(* g.counter is unnamedCounter, g.constants is currentConstants and        *)
(* g.aliases is typeAliases.  The declaration tree of ts-morph is given as *)
(* records that hold what the accessors used by the source return.         *)
(***************************************************************************)
\* A left fold: the for-loops and map callbacks of the source, in order.
RECURSIVE FoldSeq(_, _, _)
FoldSeq(Op(_, _), acc, xs) ==
    IF Len(xs) = 0 THEN acc ELSE FoldSeq(Op, Op(acc, Head(xs)), Tail(xs))

\* const v = x; then F, the rest of the body, with v in scope.
Bind(x, F(_)) == F(x)

\* utils.convertToKotlinType called by an emitter: the text, and g with the
\* literals of the call recorded.
withLiterals(r, g) ==
    [text |-> r.text, g |-> [g EXCEPT !.constants = SetConstants(@, r.lits)]]

mapType(type, strict, noDynamic, g) ==
    withLiterals(convertToKotlinType(type, strict, noDynamic), g)

specialNames ==
    <<"as", "do", "while", "if", "else", "for", "in", "return", "break",
      "continue", "switch", "case", "throw", "try", "catch", "finally",
      "inline", "operator", "suspend", "dynamic", "object">>

\* The grave accent that escapes a Kotlin identifier; a TLA+ string cannot hold
\* that character, and the model writes it as a tilde.
BackTick == "~"

\* findName from the reserved-keyword test on; name has lost its quotes.
escapedName(name, g) ==
    IF \/ SeqIncludes(specialNames, name)
       \/ Includes(name, "-")
       \/ Includes(name, " ")
       \/ Includes(name, "/")
       \/ Sub(name, 1, 1) \in Digits \cup WhiteSpace
    THEN [name |-> BackTick \o name \o BackTick, g |-> g]
    ELSE IF Includes(name, ".")
    THEN [name |-> IF LastSegment(name) # "" THEN LastSegment(name) ELSE name, g |-> g]
    ELSE [name |-> name, g |-> g]

\* if (name.startsWith('"')) name = name.slice(1)
stripLeadingQuote(name) == IF StartsWith(name, "\"") THEN Sub(name, 2, Len(name)) ELSE name

\* if (name.endsWith('"')) name = name.slice(0, -1)
stripTrailingQuote(name) ==
    IF EndsWith(name, "\"") THEN Sub(name, 1, Len(name) - 1) ELSE name

\* findName from the bracket test on.
resolvedName(name, g) ==
    IF StartsWith(name, "[") /\ EndsWith(name, "]")
    THEN (IF name \in DOMAIN g.constants /\ g.constants[name] # ""
          THEN [name |-> g.constants[name], g |-> g]
          ELSE [name |-> "__" \o name, g |-> g])
    ELSE escapedName(stripTrailingQuote(stripLeadingQuote(name)), g)

\* findName with `object${unnamedCounter}` in place of
\* `object${unnamedCounter++}`: the brace-delimited name leaves the counter alone.
findNameWithoutIncrement(name, g) ==
    IF name # ""
    THEN (IF StartsWith(name, "{") /\ EndsWith(name, "}")
          THEN resolvedName("object" \o ToString(g.counter),
                            [g EXCEPT !.synthesized =
                                          Append(@, "object" \o ToString(g.counter))])
          ELSE resolvedName(name, g))
    ELSE [name |-> "Unnamed" \o ToString(g.counter + 1),
          g |-> [g EXCEPT !.counter = @ + 1,
                          !.synthesized =
                              Append(@, "Unnamed" \o ToString(g.counter + 1))]]

\* utils.findName; name is declaration.getName(), "" when there is none.
\* synthesized keeps, in order, the names findName has made up.
findName(name, g) ==
    IF name # ""
    THEN (IF StartsWith(name, "{") /\ EndsWith(name, "}")
          THEN resolvedName("object" \o ToString(g.counter),
                            [g EXCEPT !.counter = @ + 1,
                                      !.synthesized =
                                          Append(@, "object" \o ToString(g.counter))])
          ELSE resolvedName(name, g))
    ELSE [name |-> "Unnamed" \o ToString(g.counter + 1),
          g |-> [g EXCEPT !.counter = @ + 1,
                          !.synthesized =
                              Append(@, "Unnamed" \o ToString(g.counter + 1))]]

\* The text of one tag; text is tag.getText(false) || 'No description provided.'
tagText(text) ==
    IF StartsWith(text, "@returns") THEN "@return " \o ReplaceFirst(text, "@returns", "")
    ELSE text

\* return jsdoc ? jsdoc + nl : ''
jsDocOf(jsdoc, nl) == IF jsdoc # "" THEN jsdoc \o nl ELSE ""

\* utils.getJsDoc; docs is declaration.getJsDocs(), each with its comment text
\* and the texts of its tags.
getJsDoc(docs, nl, indent) ==
    LET Tag(text) == tagText(IF text = "" THEN "No description provided." ELSE text)
        Doc(doc) ==
            indent \o "/**" \o nl \o indent \o " * " \o doc.comment \o nl \o indent
            \o " * "
            \o Join([i \in 1..Len(doc.tags) |-> Tag(doc.tags[i])], nl \o indent \o " * ")
            \o nl \o indent \o " */"
    IN  jsDocOf(Join([i \in 1..Len(docs) |-> Doc(docs[i])], nl \o nl), nl)

\* config.newLine || '\n'
NewLine(config) == IF config.newLine # "" THEN config.newLine ELSE "\n"

\* String.prototype.repeat
RECURSIVE Repeat(_, _)
Repeat(s, n) == IF n <= 0 THEN "" ELSE s \o Repeat(s, n - 1)

\* config.tabs ? '\t'.repeat(config.tabs) : ' '.repeat(config.spaces || 4)
Indent(config) ==
    IF config.tabs # 0 THEN Repeat("\t", config.tabs)
    ELSE Repeat(" ", IF config.spaces # 0 THEN config.spaces ELSE 4)

\* The parameter callback of createMethods, createStaticProperties and
\* generateFunction: acc.out collects the rendered parameters.  The name is
\* found first, then the type is mapped.
renderParam(acc, param) ==
    Bind(findName(param.name, acc.g), LAMBDA paramName :
    Bind(mapType(param.type, FALSE, FALSE, paramName.g), LAMBDA paramType :
         [out |-> Append(acc.out, paramName.name \o ": " \o paramType.text
                                  \o (IF param.optional THEN "? = definedExternally"
                                      ELSE "")),
          g |-> paramType.g]))

\* constraints.push(name : type /* constraint */) unless the bound is dropped.
whereEntry(acc, tp, type, dropped) ==
    IF dropped THEN [out |-> acc.out, g |-> type.g]
    ELSE [out |-> Append(acc.out, tp.name \o " : " \o type.text \o " /* "
                                  \o tp.constraint \o " */"),
          g |-> type.g]

\* type.startsWith('Any') || type.startsWith('dynamic') || type === 'Unit'
startsLoose(type) ==
    StartsWith(type.text, "Any") \/ StartsWith(type.text, "dynamic") \/ type.text = "Unit"

\* type === 'Any' || type === 'dynamic' || type === 'Unit'
isLoose(type) == type.text = "Any" \/ type.text = "dynamic" \/ type.text = "Unit"

looseEntry(acc, tp, type) == whereEntry(acc, tp, type, startsLoose(type))

exactEntry(acc, tp, type) == whereEntry(acc, tp, type, isLoose(type))

\* The constraint loop of createMethods and generateTypeAlias: the where-clause
\* entries of the type parameters, bounds mapped with noDynamic.
methodConstraint(acc, tp) ==
    IF tp.constraint = "" THEN acc
    ELSE looseEntry(acc, tp, mapType(tp.constraint, FALSE, TRUE, acc.g))

\* typeParams.map(tp => tp.getName()).join(', ')
TypeParamNames(typeParams) ==
    Join([i \in 1..Len(typeParams) |-> typeParams[i].name], ", ")

\* constraints.length > 0 ? ' where ' + constraints.join(', ') : ''
WhereClause(constraints) ==
    IF Len(constraints) > 0 THEN " where " \o Join(constraints, ", ") ELSE ""

overrideMethods == <<"toString", "equals", "hashCode">>

\* The override modifier of createMethods: a method of the enclosing declaration
\* bears the name, or the name is toString, equals or hashCode without parameters.
overrideOf(parentNames, methodName, params) ==
    IF SeqIncludes(parentNames, methodName) THEN "override "
    ELSE IF SeqIncludes(overrideMethods, methodName) /\ Len(params) = 0 THEN "override "
    ELSE ""

\* returnType === 'Unit' ? '' : ': ' + returnType
returnTypeSuffix(returnType) == IF returnType = "Unit" THEN "" ELSE ": " \o returnType

\* The second star at or after the first one, for StripStarSpans.
closingStar(s, i) == IF i = 0 THEN 0 ELSE IndexOfFrom(s, "*", i + 1)

\* s.replace(/\*[\s\S]*?\*/g, ''): each span from a star to the next star removed.
RECURSIVE StripStarSpans(_)
RECURSIVE stripSpan(_, _, _)
stripSpan(s, i, j) ==
    IF i = 0 \/ j = 0 THEN s
    ELSE Sub(s, 1, i - 1) \o StripStarSpans(Sub(s, j + 1, Len(s)))

StripStarSpans(s) == stripSpan(s, IndexOf(s, "*"), closingStar(s, IndexOf(s, "*")))

\* The key createMethods compares rendered methods by.
normalizedMethod(method) ==
    Trim(StripStarSpans(ReplaceFirst(method, "? = definedExternally", "")))

\* Array.prototype.indexOf on an array of strings (0: absent).
RECURSIVE SeqIndexOfFrom(_, _, _)
SeqIndexOfFrom(xs, x, i) ==
    IF i > Len(xs) THEN 0 ELSE IF xs[i] = x THEN i ELSE SeqIndexOfFrom(xs, x, i + 1)

SeqIndexOf(xs, x) == SeqIndexOfFrom(xs, x, 1)

\* Array.prototype.lastIndexOf on an array of strings (0: absent).
RECURSIVE SeqLastIndexOfFrom(_, _, _)
SeqLastIndexOfFrom(xs, x, i) ==
    IF i < 1 THEN 0 ELSE IF xs[i] = x THEN i ELSE SeqLastIndexOfFrom(xs, x, i - 1)

SeqLastIndexOf(xs, x) == SeqLastIndexOfFrom(xs, x, Len(xs))

\* parent.getMethods().filter(m => utils.findName(m) === methodName): findName is
\* called on every method of the parent.
parentMethodName(acc, m) ==
    Bind(findName(m, acc.g), LAMBDA n : [out |-> Append(acc.out, n.name), g |-> n.g])

\* The first loop of createMethods: one {method, returnSuffix} entry per method
\* that is not skipped.  The stages run in the order of the source: the
\* name, the override test against the parent, the return type, the
\* parameters, the constraints of the type parameters, the documentation.
methodEntry(acc, method, declaration, config) ==
    LET nl == NewLine(config)
        indent == Indent(config)
        generics == IF Len(method.typeParams) > 0
                    THEN "<" \o TypeParamNames(method.typeParams) \o "> " ELSE ""
    IN  IF method.static THEN acc
        ELSE
        Bind(findName(method.name, acc.g), LAMBDA methodName :
        IF StartsWith(methodName.name, "__") \/ StartsWith(methodName.name, "$")
        THEN [out |-> acc.out, g |-> methodName.g]
        ELSE IF StartsWith(methodName.name, "[") \/ EndsWith(methodName.name, "]")
        THEN [out |-> acc.out, g |-> methodName.g]
        ELSE
        Bind(FoldSeq(parentMethodName, [out |-> <<>>, g |-> methodName.g],
                     declaration.parentMethods), LAMBDA parentNames :
        Bind(mapType(method.returnType, FALSE, FALSE, parentNames.g), LAMBDA returnType :
        Bind(FoldSeq(renderParam, [out |-> <<>>, g |-> returnType.g], method.params),
             LAMBDA params :
        Bind(FoldSeq(methodConstraint, [out |-> <<>>, g |-> params.g], method.typeParams),
             LAMBDA constraints :
             [out |-> Append(acc.out,
                        [method |-> getJsDoc(method.docs, nl, indent) \o indent
                                    \o overrideOf(parentNames.out, methodName.name,
                                                  method.params)
                                    \o "fun " \o generics \o methodName.name \o "("
                                    \o Join(params.out, ", ") \o ")",
                         returnSuffix |-> returnTypeSuffix(returnType.text)
                                          \o WhereClause(constraints.out) \o nl \o nl]),
              g |-> constraints.g])))))

methodOutputOf(declaration, config, g) ==
    FoldSeq(LAMBDA acc, method : methodEntry(acc, method, declaration, config),
            [out |-> <<>>, g |-> g], declaration.methods)

\* methodOutput.map(m => m.method.replace(...).replace(...).trim())
byMethodNameOf(methodOutput) ==
    [i \in 1..Len(methodOutput) |-> normalizedMethod(methodOutput[i].method)]

\* The body of the second loop without the declared list: a rendering that
\* occurs more than once is emitted for each of its overloads.
emitMethodEveryOverload(acc, method, methodName, byMethodName, nl) ==
    IF SeqLastIndexOf(byMethodName, methodName) # SeqIndexOf(byMethodName, methodName)
    THEN [output |-> acc.output \o method.method \o ": dynamic" \o nl \o nl,
          declared |-> Append(acc.declared, methodName)]
    ELSE [output |-> acc.output \o method.method \o method.returnSuffix,
          declared |-> acc.declared]

\* The body of the second loop of createMethods.
emitMethod(acc, method, methodName, byMethodName, nl) ==
    IF SeqLastIndexOf(byMethodName, methodName) # SeqIndexOf(byMethodName, methodName)
    THEN (IF SeqIncludes(acc.declared, methodName) THEN acc
          ELSE [output |-> acc.output \o method.method \o ": dynamic" \o nl \o nl,
                declared |-> Append(acc.declared, methodName)])
    ELSE [output |-> acc.output \o method.method \o method.returnSuffix,
          declared |-> acc.declared]

\* The second loop of createMethods over methodOutput, given byMethodName.
emitMethodsBy(methodOutput, byMethodName, nl) ==
    FoldSeq(LAMBDA acc, method :
                emitMethod(acc, method, normalizedMethod(method.method), byMethodName, nl),
            [output |-> "", declared |-> <<>>], methodOutput).output

\* The second loop of createMethods: a rendering that occurs more than once is
\* emitted once, typed dynamic; every other method with its own return suffix.
emitMethods(methodOutput, nl) ==
    emitMethodsBy(methodOutput, byMethodNameOf(methodOutput), nl)

\* return output, beside the module state the first loop leaves.
methodsOf(methodOutput, nl) ==
    [text |-> emitMethods(methodOutput.out, nl), g |-> methodOutput.g]

\* generator.ts createMethods.
createMethods(declaration, config, g) ==
    methodsOf(methodOutputOf(declaration, config, g), NewLine(config))

\* generator.ts getParentProperties: the names (getName) of the property
\* members of the classes and interfaces the extends clauses resolve to.
getParentProperties(declaration) ==
    LET OfDecl(d) ==
            IF declaration.kind = "class" /\ d.kind = "interface" THEN <<>>
            ELSE IF d.kind \in {"interface", "class"}
            THEN (IF d.name = "Error" THEN <<>> ELSE d.properties)
            ELSE <<>>
        OfClause(ext) ==
            IF ~ext.hasSymbol THEN <<>>
            ELSE FoldSeq(LAMBDA acc, d : acc \o OfDecl(d), <<>>, ext.decls)
    IN  FoldSeq(LAMBDA acc, ext : acc \o OfClause(ext), <<>>, declaration.extends)

\* parentProperties.some(p => utils.findName(p) === propName): findName is
\* called on the parent properties in order until one matches.
parentNamed(acc, p, propName) ==
    IF acc.found THEN acc
    ELSE Bind(findName(p, acc.g), LAMBDA n : [found |-> n.name = propName, g |-> n.g])

someParentNamed(parentProperties, propName, g) ==
    FoldSeq(LAMBDA acc, p : parentNamed(acc, p, propName),
            [found |-> FALSE, g |-> g], parentProperties)

\* The loop body of createProperties: the name, the override test against
\* the parent properties, then the type.
propertyEntry(acc, prop, declaration, config) ==
    LET nl == NewLine(config)
        indent == Indent(config)
        type == IF prop.readonly THEN "val" ELSE "var"
    IN  IF prop.static THEN acc
        ELSE
        Bind(findName(prop.name, acc.g), LAMBDA propName :
        IF StartsWith(propName.name, "__") \/ StartsWith(propName.name, "$")
        THEN [text |-> acc.text, g |-> propName.g]
        ELSE
        Bind(someParentNamed(getParentProperties(declaration), propName.name, propName.g),
             LAMBDA parent :
        IF prop.typeQuery THEN [text |-> acc.text, g |-> parent.g]
        ELSE IF Len(declaration.typeParams) = 0 /\ prop.isTypeParameter
        THEN [text |-> acc.text, g |-> parent.g]
        ELSE
        Bind(mapType(prop.type, FALSE, FALSE, parent.g), LAMBDA propType :
        IF propType.text = "Nothing" THEN [text |-> acc.text, g |-> propType.g]
        ELSE [text |-> acc.text \o getJsDoc(prop.docs, nl, indent) \o indent
                       \o (IF parent.found THEN "override " ELSE "") \o type \o " "
                       \o propName.name \o ": " \o propType.text
                       \o (IF prop.nullable THEN "?" ELSE "") \o nl \o nl,
              g |-> propType.g])))

\* generator.ts createProperties.
createProperties(declaration, config, g) ==
    FoldSeq(LAMBDA acc, prop : propertyEntry(acc, prop, declaration, config),
            [text |-> "", g |-> g], declaration.properties)

\* Array.prototype.filter
RECURSIVE Filter(_, _)
Filter(Keep(_), xs) ==
    IF Len(xs) = 0 THEN <<>>
    ELSE (IF Keep(Head(xs)) THEN <<Head(xs)>> ELSE <<>>) \o Filter(Keep, Tail(xs))

\* declaration.getStaticProperties() and declaration.getStaticMethods()
getStaticProperties(declaration) == Filter(LAMBDA m : m.static, declaration.properties)

getStaticMethods(declaration) == Filter(LAMBDA m : m.static, declaration.methods)

\* The property loop of createStaticProperties.
staticProperty(acc, prop, nl, indent) ==
    Bind(findName(prop.name, acc.g), LAMBDA propName :
    IF StartsWith(propName.name, "__") \/ StartsWith(propName.name, "$")
    THEN [text |-> acc.text, g |-> propName.g]
    ELSE
    Bind(mapType(prop.type, FALSE, FALSE, propName.g), LAMBDA propType :
         [text |-> acc.text \o getJsDoc(prop.docs, nl, Repeat(indent, 2)) \o indent
                   \o indent \o "val " \o propName.name \o ": " \o propType.text
                   \o (IF prop.nullable THEN "?" ELSE "") \o nl \o nl,
          g |-> propType.g]))

\* The method loop of createStaticProperties.
staticMethod(acc, method, nl, indent) ==
    Bind(findName(method.name, acc.g), LAMBDA methodName :
    IF StartsWith(methodName.name, "__") \/ StartsWith(methodName.name, "$")
    THEN [text |-> acc.text, g |-> methodName.g]
    ELSE
    Bind(mapType(method.returnType, FALSE, FALSE, methodName.g), LAMBDA returnType :
    Bind(FoldSeq(renderParam, [out |-> <<>>, g |-> returnType.g], method.params),
         LAMBDA params :
         [text |-> acc.text \o getJsDoc(method.docs, nl, Repeat(indent, 2)) \o indent
                   \o indent \o "fun " \o methodName.name \o "("
                   \o Join(params.out, ", ") \o "): " \o returnType.text \o nl \o nl,
          g |-> params.g])))

\* output += indent + '}' + nl + nl
closeCompanion(methods, nl, indent) ==
    [text |-> methods.text \o indent \o "}" \o nl \o nl, g |-> methods.g]

\* generator.ts createStaticProperties.
createStaticProperties(declaration, config, g) ==
    LET nl == NewLine(config)
        indent == Indent(config)
    IN  closeCompanion(
            FoldSeq(LAMBDA acc, method : staticMethod(acc, method, nl, indent),
                    FoldSeq(LAMBDA acc, prop : staticProperty(acc, prop, nl, indent),
                            [text |-> indent \o "companion object {" \o nl, g |-> g],
                            getStaticProperties(declaration)),
                    getStaticMethods(declaration)),
            nl, indent)

\* What an emitter hands back: the text, the module state, and whether it threw.
Emitted(text, g) == [text |-> text, g |-> g, threw |-> FALSE]

\* An emitter that returns the empty text where the source throws.
Swallowed(g) == [text |-> "", g |-> g, threw |-> FALSE]

\* throw new Error("Only ambient ... are supported")
Thrown(g) == [text |-> "", g |-> g, threw |-> TRUE]

\* generator.ts generateVariable, for one declaration of a variable statement.
generateVariable(statement, declaration, config, g) ==
    IF statement.declare THEN Emitted("", g)
    ELSE
    Bind(findName(declaration.name, g), LAMBDA name :
    IF StartsWith(name.name, "__") \/ StartsWith(name.name, "$")
    THEN Emitted("", name.g)
    ELSE
    Bind(mapType(declaration.type, FALSE, FALSE, name.g), LAMBDA type :
    IF StartsWith(type.text, "<") /\ EndsWith(type.text, ">")
    THEN Emitted("", type.g)
    ELSE Emitted(getJsDoc(statement.docs, NewLine(config), "") \o "external val "
                 \o name.name \o ": " \o type.text \o NewLine(config), type.g)))

\* generator.ts generateFunction.
generateFunction(declaration, config, g) ==
    LET nl == NewLine(config)
        generics == IF Len(declaration.typeParams) > 0
                    THEN "<" \o TypeParamNames(declaration.typeParams) \o "> " ELSE ""
    IN  IF declaration.declare THEN Emitted("", g)
        ELSE IF ~declaration.ambient THEN Thrown(g)
        ELSE
        Bind(findName(declaration.name, g), LAMBDA name :
        IF StartsWith(name.name, "__") \/ StartsWith(name.name, "$")
        THEN Emitted("", name.g)
        ELSE
        Bind(mapType(declaration.returnType, FALSE, FALSE, name.g), LAMBDA returnType :
        Bind(FoldSeq(renderParam, [out |-> <<>>, g |-> returnType.g], declaration.params),
             LAMBDA params :
             Emitted(getJsDoc(declaration.docs, nl, "") \o "external fun " \o generics
                     \o name.name \o "(" \o Join(params.out, ", ") \o ")"
                     \o returnTypeSuffix(returnType.text) \o nl \o nl,
                     params.g))))

doNotExpose ==
    <<"GlobalDescriptor", "EventTarget", "MessageEvent", "MessageEventInit",
      "WebSocket", "WebSocketEventMap">>

\* The constraint loop of generateClass: a bound is dropped only when its
\* mapping is exactly Any, dynamic or Unit.
classConstraint(acc, tp) ==
    IF tp.constraint = "" THEN acc
    ELSE exactEntry(acc, tp, mapType(tp.constraint, FALSE, TRUE, acc.g))

\* The constraint loop of generateInterface: bounds mapped with default flags.
interfaceConstraint(acc, tp) ==
    IF tp.constraint = "" THEN acc
    ELSE looseEntry(acc, tp, mapType(tp.constraint, FALSE, FALSE, acc.g))

\* const parent0 = parent && approved ? ' : ' + parent : ''
Parent0(parent) ==
    IF parent # "" /\ parent # "Error" /\ parent # "dynamic" THEN " : " \o parent ELSE ""

\* The type arguments of the parent of a class, mapped with noDynamic.
parentTypeArg(acc, arg) ==
    Bind(mapType(arg, FALSE, TRUE, acc.g),
         LAMBDA t : [out |-> Append(acc.out, t.text), g |-> t.g])

\* The parameters of a constructor: the name is param.getName() as it stands.
constructorParam(acc, param) ==
    Bind(mapType(param.type, FALSE, FALSE, acc.g), LAMBDA paramType :
         [out |-> Append(acc.out, param.name \o ": " \o paramType.text
                                  \o (IF param.nullable THEN "? = definedExternally"
                                      ELSE "")),
          g |-> paramType.g])

\* The constructor loop of generateClass.
classConstructor(acc, ctor, nl, indent) ==
    Bind(FoldSeq(constructorParam, [out |-> <<>>, g |-> acc.g], ctor.params),
         LAMBDA params :
         [text |-> acc.text \o getJsDoc(ctor.docs, nl, indent) \o indent
                   \o "constructor(" \o Join(params.out, ", ") \o ")" \o nl \o nl,
          g |-> params.g])

\* '<' + typeParams.map(tp => tp.getName()).join(', ') + '>', or ''
Generics(typeParams) ==
    IF Len(typeParams) > 0 THEN "<" \o TypeParamNames(typeParams) \o ">" ELSE ""

\* generator.ts generateClass.  The stages run in the order of the source:
\* the name, the constraints of the type parameters, the parent, the head
\* line, the constructors, the properties, the methods, the companion.
generateClass(declaration, config, g) ==
    LET nl == NewLine(config)
        indent == Indent(config)
        modifiers == IF declaration.abstract THEN "abstract " ELSE "open "
        typeParams == declaration.typeParams
        ext == IF Len(declaration.extends) > 0 THEN declaration.extends[1]
               ELSE [text |-> "", isObject |-> FALSE, typeArgs |-> <<>>]
        parentGeneric == Includes(ext.text, "<") /\ Includes(ext.text, ">")
        rewrite == parentGeneric /\ ext.isObject /\ Len(ext.typeArgs) > 0
        hasStatic == Len(getStaticProperties(declaration)) > 0
                     \/ Len(getStaticMethods(declaration)) > 0
    IN  IF ~declaration.ambient THEN Thrown(g)
        ELSE
        Bind(findName(declaration.name, g), LAMBDA name :
        IF SeqIncludes(doNotExpose, name.name) THEN Emitted("", name.g)
        ELSE IF StartsWith(name.name, "__") \/ StartsWith(name.name, "$")
        THEN Emitted("", name.g)
        ELSE
        Bind(FoldSeq(classConstraint, [out |-> <<>>, g |-> name.g], typeParams),
             LAMBDA constraints :
        Bind(IF rewrite
             THEN FoldSeq(parentTypeArg, [out |-> <<>>, g |-> constraints.g],
                          Filter(LAMBDA arg : arg # "this", ext.typeArgs))
             ELSE [out |-> <<>>, g |-> constraints.g],
             LAMBDA typeArgs :
        Bind(FoldSeq(LAMBDA acc, ctor : classConstructor(acc, ctor, nl, indent),
                     [text |-> getJsDoc(declaration.docs, nl, "") \o modifiers
                               \o "external class " \o name.name \o Generics(typeParams)
                               \o Parent0(IF ~parentGeneric THEN ext.text
                                          ELSE IF rewrite
                                          THEN Split(ext.text, "<")[1] \o "<"
                                               \o Join(typeArgs.out, ", ") \o ">"
                                          ELSE Split(ext.text, "<")[1])
                               \o WhereClause(constraints.out) \o " {" \o nl,
                      g |-> typeArgs.g],
                     declaration.constructors),
             LAMBDA ctors :
        Bind(createProperties(declaration, config, ctors.g), LAMBDA props :
        Bind(createMethods(declaration, config, props.g), LAMBDA methods :
        Bind(IF hasStatic THEN createStaticProperties(declaration, config, methods.g)
             ELSE [text |-> "", g |-> methods.g],
             LAMBDA statics :
             Emitted(ctors.text \o props.text \o methods.text \o statics.text
                     \o "}" \o nl, statics.g))))))))

\* declaration.getSymbol().getDeclarations().filter(Node.isInterfaceDeclaration):
\* the interface declarations of the declaration's scope that bear its name.
canonDeclarations(declaration, scope) ==
    Filter(LAMBDA d : d.kind = "interface" /\ d.name = declaration.name, scope)

\* The type parameters of a declaration with no name filtered out: what the
\* merge would push without existingNames.
canonicalParamsUnfiltered(typeParams, canonDeclaration) == canonDeclaration.typeParams

\* canonDeclaration.getTypeParameters().filter(tp => !existingNames.has(tp.getName()))
canonicalParams(typeParams, canonDeclaration) ==
    Filter(LAMBDA tp : \A i \in 1..Len(typeParams) : typeParams[i].name # tp.name,
           canonDeclaration.typeParams)

\* typeParams.push(...canonicalParams)
pushCanonicalParams(typeParams, canonDeclaration) ==
    typeParams \o canonicalParams(typeParams, canonDeclaration)

\* The type-parameter merge of generateInterface: the parameters of every
\* declaration of the symbol, a name kept at its first occurrence.
mergedTypeParams(declaration, scope) ==
    FoldSeq(pushCanonicalParams, <<>>, canonDeclarations(declaration, scope))

\* The extends clauses generateInterface keeps.
interfaceParents(declaration) ==
    Filter(LAMBDA ext :
               /\ ext.hasSymbol
               /\ ~StartsWith(ext.symbolName, "__")
               /\ ext.symbolName # "Error"
               /\ \A i \in 1..Len(ext.decls) : ext.decls[i].kind = "interface",
           declaration.extends)

\* parents.length > 0 ? ' : ' + parents.map(p => p.getText()).join(', ') : ''
interfaceParent0(parents) ==
    IF Len(parents) > 0
    THEN " : " \o Join([i \in 1..Len(parents) |-> parents[i].text], ", ") ELSE ""

\* generator.ts generateInterface.
generateInterface(declaration, scope, config, g) ==
    LET nl == NewLine(config)
    IN  IF ~declaration.ambient THEN Thrown(g)
        ELSE
        Bind(findName(declaration.name, g), LAMBDA name :
        IF SeqIncludes(doNotExpose, name.name) THEN Emitted("", name.g)
        ELSE IF StartsWith(name.name, "__") \/ StartsWith(name.name, "$")
        THEN Emitted("", name.g)
        ELSE
        Bind(mergedTypeParams(declaration, scope), LAMBDA typeParams :
        Bind(FoldSeq(interfaceConstraint, [out |-> <<>>, g |-> name.g], typeParams),
             LAMBDA constraints :
        Bind(createProperties(declaration, config, constraints.g), LAMBDA props :
        Bind(createMethods(declaration, config, props.g), LAMBDA methods :
             Emitted(getJsDoc(declaration.docs, nl, "") \o "external interface "
                     \o name.name \o Generics(typeParams)
                     \o interfaceParent0(interfaceParents(declaration))
                     \o WhereClause(constraints.out) \o " {" \o nl
                     \o props.text \o methods.text \o "}" \o nl,
                     methods.g))))))

\* A push that leaves the buffer as it is.
skipAlias(g, entry) == g

\* typeAliases.push(entry); pushed counts the entries the running invocation
\* has buffered.
pushAlias(g, entry) ==
    [g EXCEPT !.aliases = Append(@, entry), !.pushed = @ + 1]

\* One turn of the property loop of generateTypeAlias (createPropertiesFromType
\* and the loop of the plain-object branch): one var line per property signature.
aliasProperty(acc, prop, nl, indent) ==
    IF ~prop.hasDeclaration \/ ~prop.isPropertySignature THEN acc
    ELSE
    Bind(findName(prop.name, acc.g), LAMBDA propName :
    IF StartsWith(propName.name, "__") \/ StartsWith(propName.name, "$")
    THEN [text |-> acc.text, g |-> propName.g]
    ELSE
    Bind(mapType(prop.type, FALSE, FALSE, propName.g), LAMBDA kotlinType :
         [text |-> acc.text \o getJsDoc(prop.docs, nl, indent) \o indent \o "var "
                   \o propName.name \o ": " \o kotlinType.text
                   \o (IF prop.question THEN "?" ELSE "") \o nl,
          g |-> kotlinType.g]))

aliasProperties(properties, config, g) ==
    FoldSeq(LAMBDA acc, prop : aliasProperty(acc, prop, NewLine(config), Indent(config)),
            [text |-> "", g |-> g], properties)

\* One turn of the loop over type.getIntersectionTypes().
intersectionPart(acc, t) ==
    IF t.isTypeParameter THEN acc
    ELSE IF StartsWith(t.text, "{") /\ EndsWith(t.text, "}")
    THEN [acc EXCEPT !.inline = <<t>>]
    ELSE
    Bind(mapType(t.text, FALSE, TRUE, acc.g), LAMBDA text :
    IF StartsWith(text.text, "dynamic") \/ StartsWith(text.text, "Any")
    THEN [acc EXCEPT !.g = text.g]
    ELSE [acc EXCEPT !.parents = Append(@, text.text), !.g = text.g])

\* The creator function generateTypeAlias buffers beside an external interface.
creatorEntry(name, generics, whereClause, nl) ==
    "fun " \o (IF generics # "" THEN generics \o " " ELSE "") \o name
    \o "(apply: " \o name \o generics \o ".() -> Unit = {}): "
    \o name \o generics \o whereClause \o " = js(\"{}\").apply(apply)" \o nl \o nl

\* The typealias line generateTypeAlias buffers.
aliasEntry(doc, name, generics, target, whereClause, nl) ==
    doc \o "typealias " \o name \o generics \o " = " \o target \o whereClause \o nl \o nl

\* generator.ts generateTypeAlias: the branches in the order of the source,
\* each with the entry it pushes to typeAliases.
generateTypeAlias(declaration, config, g) ==
    LET nl == NewLine(config)
        type == declaration.alias
        typeParams == declaration.typeParams
        generics == Generics(typeParams)
        doc == getJsDoc(declaration.docs, nl, "")
        falsy == type.falseText \in {"undefined", "unknown", "never", "void", "null"}
    IN  IF ~declaration.ambient THEN Thrown(g)
        ELSE
        Bind(findName(declaration.name, g), LAMBDA name :
        IF SeqIncludes(doNotExpose, name.name) THEN Emitted("", name.g)
        ELSE IF StartsWith(name.name, "__") THEN Emitted("", name.g)
        ELSE
        Bind(FoldSeq(methodConstraint, [out |-> <<>>, g |-> name.g], typeParams),
             LAMBDA constraints :
        Bind(WhereClause(constraints.out), LAMBDA whereClause :
        IF type.isIntersection
        THEN Bind(FoldSeq(intersectionPart,
                          [parents |-> <<>>, inline |-> <<>>, g |-> constraints.g],
                          type.intersectionTypes),
                  LAMBDA parts :
             IF Len(parts.inline) > 0
             THEN Bind(aliasProperties(parts.inline[1].properties, config, parts.g),
                       LAMBDA props :
                       Emitted(doc \o "external interface " \o name.name \o generics
                               \o (IF Len(parts.parents) > 0
                                   THEN " : " \o Join(parts.parents, ", ") ELSE "")
                               \o whereClause \o " {" \o nl \o props.text
                               \o "}" \o nl \o nl,
                               pushAlias(props.g,
                                         creatorEntry(name.name, generics, whereClause,
                                                      nl))))
             ELSE Bind(mapType(type.typeText, TRUE, TRUE, parts.g), LAMBDA fallback :
                       Emitted("", pushAlias(fallback.g,
                                             aliasEntry(doc, name.name, generics,
                                                        fallback.text, "", nl)))))
        ELSE IF type.isConditional
        THEN (IF ~type.conditionalNode
              THEN Emitted("", pushAlias(constraints.g,
                                         aliasEntry(doc, name.name, generics, "Any",
                                                    whereClause, nl)))
              ELSE
              Bind(mapType(type.trueText, FALSE, TRUE, constraints.g),
                   LAMBDA kotlinTrueType :
              IF falsy
              THEN Emitted("", pushAlias(kotlinTrueType.g,
                                         aliasEntry(doc, name.name, generics,
                                                    kotlinTrueType.text \o "?",
                                                    whereClause, nl)))
              ELSE
              Bind(mapType(type.falseText, FALSE, TRUE, kotlinTrueType.g),
                   LAMBDA kotlinFalseType :
                   Emitted("", pushAlias(kotlinFalseType.g,
                                         aliasEntry(doc, name.name, generics,
                                                    IF kotlinTrueType.text
                                                       = kotlinFalseType.text
                                                    THEN kotlinTrueType.text ELSE "Any",
                                                    whereClause, nl))))))
        ELSE IF ~type.isObject \/ type.isUnion
        THEN Bind(mapType(type.typeText, TRUE, TRUE, constraints.g), LAMBDA fallback :
                  Emitted("", pushAlias(fallback.g,
                                        aliasEntry(doc, name.name, generics,
                                                   fallback.text, "", nl))))
        ELSE IF type.isArray
        THEN Bind(mapType(IF type.arrayElementType # "" THEN type.arrayElementType
                          ELSE "Any", TRUE, TRUE, constraints.g),
                  LAMBDA elementType :
                  Emitted("", pushAlias(elementType.g,
                                        aliasEntry(doc, name.name, generics,
                                                   "Array<" \o elementType.text \o ">",
                                                   "", nl))))
        ELSE Bind(aliasProperties(type.properties, config, constraints.g), LAMBDA props :
                  Emitted(doc \o "external interface " \o name.name \o generics
                          \o " {" \o nl \o props.text \o "}" \o nl \o nl,
                          pushAlias(props.g,
                                    creatorEntry(name.name, generics, whereClause,
                                                 nl)))))))

\* output += <what the emitter returned>
appendEmitted(a, e) == [text |-> a.text \o e.text, g |-> e.g, threw |-> e.threw]

\* A loop over declarations that stops at the first emitter that throws.
emitAll(Emit(_, _), acc, declarations) ==
    FoldSeq(LAMBDA a, d : IF a.threw THEN a ELSE appendEmitted(a, Emit(d, a.g)),
            acc, declarations)

\* One turn of the import loops of tykon and of tykonFromSource.
importLine(out, imp, nl) ==
    IF Trim(imp) = "" THEN out ELSE out \o "import " \o Trim(imp) \o nl

importLines(config) ==
    FoldSeq(LAMBDA out, imp : importLine(out, imp, NewLine(config)), "", config.imports)

OfKind(statements, kind) == Filter(LAMBDA d : d.kind = kind, statements)

\* source.getFunctions().filter(f => f.isAmbient()), and so for the other kinds
AmbientOfKind(statements, kind) == Filter(LAMBDA d : d.ambient, OfKind(statements, kind))

\* output += <what the emitter returned> + nl
withNl(e, nl) == IF e.threw THEN e ELSE [e EXCEPT !.text = @ \o nl]

\* The declaration loop of a variable statement, in tykon and in generateStatement.
variableStatement(statement, config, g) ==
    emitAll(LAMBDA decl, g1 : withNl(generateVariable(statement, decl, config, g1),
                                     NewLine(config)),
            Emitted("", g), statement.declarations)

\* generator.ts tykon, for the statements of a source file or of a module.
tykon(config, source, g) ==
    LET nl == NewLine(config)
        head == "package " \o config.package \o nl \o nl
                \o (IF config.hasImports /\ Len(config.imports) > 0
                    THEN importLines(config) \o "\n" ELSE "")
    IN  emitAll(LAMBDA d, g1 : generateTypeAlias(d, config, g1),
          emitAll(LAMBDA d, g1 : generateInterface(d, source, config, g1),
            emitAll(LAMBDA d, g1 : generateClass(d, config, g1),
              emitAll(LAMBDA d, g1 : generateFunction(d, config, g1),
                emitAll(LAMBDA statement, g1 : variableStatement(statement, config, g1),
                        Emitted(head, g), OfKind(source, "variable")),
                AmbientOfKind(source, "function")),
              AmbientOfKind(source, "class")),
            AmbientOfKind(source, "interface")),
          AmbientOfKind(source, "typeAlias"))

\* config.imports = config.imports || []; config.imports.push('kotlin.js.*')
\* whether or not the list is there: the default import pushed at every call.
withDefaultImportsPushed(config) ==
    [config EXCEPT !.hasImports = TRUE, !.imports = Append(@, "kotlin.js.*")]

\* if (!config.imports) { config.imports = []; config.imports.push('kotlin.js.*') }
withDefaultImports(config) ==
    IF config.hasImports THEN config
    ELSE [config EXCEPT !.hasImports = TRUE, !.imports = <<"kotlin.js.*">>]

\* A module name without its surrounding double quotes.
unquoted(moduleName) ==
    IF StartsWith(moduleName, "\"") /\ EndsWith(moduleName, "\"")
    THEN Sub(moduleName, 2, Len(moduleName) - 1) ELSE moduleName

\* The two comment lines tykonFromModule puts before the body.
moduleHead(moduleName, nl) ==
    "// Module: " \o moduleName \o nl \o "@file:JsModule(\"" \o moduleName \o "\")" \o nl

prefixed(head, body) == [body EXCEPT !.text = head \o @]

\* generator.ts tykonFromModule.  atModule keeps, for the running invocation,
\* what currentConstants held when each call of tykonFromModule began.
tykonFromModule(config, module, g) ==
    prefixed(moduleHead(unquoted(module.name), NewLine(config)),
             tykon(withDefaultImports(config), module.statements,
                   [g EXCEPT !.atModule = Append(@, g.constants)]))

UpperCase == "ABCDEFGHIJKLMNOPQRSTUVWXYZ"

LowerCase == "abcdefghijklmnopqrstuvwxyz"

UpperCaseLetters == {Sub(UpperCase, i, i) : i \in 1..Len(UpperCase)}

\* [a-z0-9_-]
FileNameChars == {Sub(LowerCase, i, i) : i \in 1..Len(LowerCase)} \cup Digits \cup {"_", "-"}

lowerOfAt(i) == Sub(LowerCase, i, i)

\* String.prototype.toLowerCase on one character, for the ASCII letters.
lowerChar(c) == IF c \in UpperCaseLetters THEN lowerOfAt(IndexOf(UpperCase, c)) ELSE c

\* .replace(/:/g, '-').replace(/[^a-z0-9_-]/g, '') on one lower-case character
fileNameChar(c) == IF c = ":" THEN "-" ELSE IF c \in FileNameChars THEN c ELSE ""

\* .toLowerCase().replace(/:/g, '-').replace(/[^a-z0-9_-]/g, ''), character by character
RECURSIVE lowerFileName(_)
lowerFileName(s) ==
    IF Len(s) = 0 THEN ""
    ELSE fileNameChar(lowerChar(Sub(s, 1, 1))) \o lowerFileName(Sub(s, 2, Len(s)))

\* s.replace(/-+$/, '')
RECURSIVE trimTrailingDashes(_)
trimTrailingDashes(s) ==
    IF EndsWith(s, "-") THEN trimTrailingDashes(Sub(s, 1, Len(s) - 1)) ELSE s

\* getValidFileName without its last step, .replace(/-+$/, '').
getValidFileNameUntrimmed(moduleName) == lowerFileName(unquoted(moduleName))

\* generator.ts getValidFileName.
getValidFileName(moduleName) == trimTrailingDashes(lowerFileName(unquoted(moduleName)))

\* generator.ts generateStatement, for one top-level statement beside modules.
generateStatement(statement, scope, config, g) ==
    LET nl == NewLine(config)
    IN  CASE statement.kind = "variable" -> variableStatement(statement, config, g)
          [] statement.kind = "function" ->
               withNl(generateFunction(statement, config, g), nl)
          [] statement.kind = "class" -> withNl(generateClass(statement, config, g), nl)
          [] statement.kind = "interface" ->
               withNl(generateInterface(statement, scope, config, g), nl)
          [] statement.kind = "typeAlias" ->
               withNl(generateTypeAlias(statement, config, g), nl)
          [] OTHER -> Emitted("", g)

\* A map that puts a new key before the keys it holds.
mapSetFirst(outputs, name, text) ==
    IF \E i \in 1..Len(outputs) : outputs[i].name = name
    THEN [i \in 1..Len(outputs) |->
            IF outputs[i].name = name THEN [name |-> name, text |-> text] ELSE outputs[i]]
    ELSE <<[name |-> name, text |-> text]>> \o outputs

\* Map.prototype.set on the artifact map, kept as its entries in insertion order.
mapSet(outputs, name, text) ==
    IF \E i \in 1..Len(outputs) : outputs[i].name = name
    THEN [i \in 1..Len(outputs) |->
            IF outputs[i].name = name THEN [name |-> name, text |-> text] ELSE outputs[i]]
    ELSE Append(outputs, [name |-> name, text |-> text])

\* .replace(/\.d\.ts$/, '')
withoutDts(filePath) ==
    IF EndsWith(filePath, ".d.ts") THEN Sub(filePath, 1, Len(filePath) - 5) ELSE filePath

\* .replace(/.*\//, '')
afterLastSlash(path) == Sub(path, LastIndexOf(path, "/") + 1, Len(path))

\* sourceFile.getFilePath().replace(/\.d\.ts$/, '').replace(/.*\//, '')
defaultRootModule(filePath) == afterLastSlash(withoutDts(filePath))

\* outputs.set(name, text), reached only when the emitter before it returned.
setOutput(acc, e, name, text) ==
    [outputs |-> IF e.threw THEN acc.outputs ELSE mapSet(acc.outputs, name, text),
     g |-> e.g, threw |-> e.threw]

\* One turn of the loop over the modules of tykonFromSource.
moduleOutput(acc, module, config, baseName) ==
    IF acc.threw THEN acc
    ELSE Bind(tykonFromModule(config, module, acc.g), LAMBDA e :
              setOutput(acc, e, getValidFileName(module.name) \o ".d.kt",
                        "// Generated by Tykon from " \o baseName \o NewLine(config)
                        \o e.text))

\* The end of tykonFromSource: the buffered aliases go to their own artifact
\* and the buffer is cleared; a call that threw returns nothing.
flushAliases(emitted, typeAliasOutput, config, baseName, fileName) ==
    IF emitted.threw THEN [outputs |-> <<>>, g |-> emitted.g, threw |-> TRUE]
    ELSE IF typeAliasOutput # ""
    THEN [outputs |-> mapSet(emitted.outputs, fileName \o ".types.d.kt",
                             "// Type Aliases from " \o baseName \o NewLine(config)
                             \o NewLine(config) \o "package " \o config.package
                             \o NewLine(config) \o NewLine(config) \o typeAliasOutput),
          g |-> [emitted.g EXCEPT !.aliases = <<>>],
          threw |-> FALSE]
    ELSE [outputs |-> emitted.outputs, g |-> emitted.g, threw |-> FALSE]

\* generator.ts tykonFromSource: the artifact map (outputs), the module state
\* the call leaves behind (g), and whether an emitter threw, in which case the
\* call returns nothing.
tykonFromSource(config0, sourceFile, g) ==
    LET config == withDefaultImports(config0)
        nl == NewLine(config)
        rootModule == IF config.module # "" THEN config.module
                      ELSE defaultRootModule(sourceFile.filePath)
        baseName == sourceFile.baseName
        fileName == getValidFileName(sourceFile.baseNameWithoutExtension)
        modules == OfKind(sourceFile.statements, "module")
        topLevelStatements == Filter(LAMBDA d : d.kind # "module", sourceFile.statements)
    IN  Bind(IF Len(modules) > 0
             THEN Bind(FoldSeq(LAMBDA acc, module :
                                   moduleOutput(acc, module, config, baseName),
                               [outputs |-> <<>>, g |-> g, threw |-> FALSE], modules),
                       LAMBDA afterModules :
                  IF afterModules.threw \/ Len(topLevelStatements) = 0 THEN afterModules
                  ELSE
                  Bind(emitAll(LAMBDA d, g1 :
                                   generateStatement(d, topLevelStatements, config, g1),
                               Emitted("// Generated by Tykon from " \o baseName \o nl
                                       \o nl \o "@file:JsModule(\"" \o rootModule
                                       \o "\")" \o nl \o "@file:JsNonModule" \o nl \o nl
                                       \o "package " \o config.package \o nl \o nl
                                       \o importLines(config),
                                       afterModules.g),
                               topLevelStatements),
                       LAMBDA root :
                       setOutput(afterModules, root, fileName \o ".d.kt", root.text)))
             ELSE Bind(tykon(config, sourceFile.statements, g), LAMBDA single :
                       setOutput([outputs |-> <<>>], single, fileName \o ".d.kt",
                                 "// Generated by Tykon from " \o baseName \o nl \o nl
                                 \o "@file:JsModule(\"" \o rootModule \o "\")" \o nl
                                 \o nl \o single.text)),
             LAMBDA emitted :
             flushAliases(emitted, Join(emitted.g.aliases, ""), config, baseName,
                          fileName))

(***************************************************************************)
(* The inputs: declarations as ts-morph presents them, source files built  *)
(* from them, and the type texts handed to the type mapper.                *)
(***************************************************************************)
MaxRootStatements == 2
MaxModules == 1
MaxModuleStatements == 1
MaxInvocations == 2
MaxMethods == 3
MaxArrayDepth == 3

\* A declaration node with every accessor at its empty value.
BlankDeclaration ==
    [kind |-> "other", name |-> "", ambient |-> TRUE, declare |-> FALSE,
     abstract |-> FALSE, docs |-> <<>>, typeParams |-> <<>>, extends |-> <<>>,
     constructors |-> <<>>, properties |-> <<>>, methods |-> <<>>,
     parentMethods |-> <<>>, params |-> <<>>, returnType |-> "void",
     declarations |-> <<>>,
     alias |-> [typeText |-> "", isIntersection |-> FALSE, intersectionTypes |-> <<>>,
                isConditional |-> FALSE, conditionalNode |-> FALSE, trueText |-> "",
                falseText |-> "", isObject |-> FALSE, isUnion |-> FALSE,
                isArray |-> FALSE, arrayElementType |-> "", properties |-> <<>>],
     statements |-> <<>>]

Property(name, type) ==
    [name |-> name, type |-> type, readonly |-> FALSE, static |-> FALSE,
     typeQuery |-> FALSE, isTypeParameter |-> FALSE, nullable |-> FALSE, docs |-> <<>>]

Parameter(name, type, optional) ==
    [name |-> name, type |-> type, optional |-> optional, nullable |-> optional]

Method(name, params, returnType) ==
    [name |-> name, params |-> params, returnType |-> returnType, static |-> FALSE,
     typeParams |-> <<>>, docs |-> <<>>]

\* export class A { x: string }
ClassA ==
    [BlankDeclaration EXCEPT !.kind = "class", !.name = "A",
                             !.properties = <<Property("x", "string")>>]

\* interface A { y: number }
InterfaceA ==
    [BlankDeclaration EXCEPT !.kind = "interface", !.name = "A",
                             !.properties = <<Property("y", "number")>>]

\* interface K { k: "a" }
InterfaceK ==
    [BlankDeclaration EXCEPT !.kind = "interface", !.name = "K",
                             !.properties = <<Property("k", "\"a\"")>>]

\* type T = string | number
AliasT ==
    [BlankDeclaration EXCEPT !.kind = "typeAlias", !.name = "T",
                             !.alias.typeText = "string | number",
                             !.alias.isUnion = TRUE]

\* export function h({ a }: P): void
FunctionH ==
    [BlankDeclaration EXCEPT !.kind = "function", !.name = "h",
                             !.params = <<Parameter("{ a }", "P", FALSE)>>]

\* function g() {}: a function with a body, for which isAmbient() is false
FunctionG ==
    [BlankDeclaration EXCEPT !.kind = "function", !.name = "g", !.ambient = FALSE]

\* class G { z: string }: a class without declare, for which isAmbient() is
\* false outside a declaration file
ClassG ==
    [BlankDeclaration EXCEPT !.kind = "class", !.name = "G", !.ambient = FALSE,
                             !.properties = <<Property("z", "string")>>]

\* The top-level statements of a declaration file: isAmbient() holds for all.
DeclarationFileStatements == {ClassA, InterfaceA, AliasT, FunctionH}

\* The top-level statements of a file that is no declaration file: an
\* interface and a type alias are ambient there, a function with a body and a
\* class without declare are not.
ScriptFileStatements == {InterfaceA, AliasT, FunctionG, ClassG}

\* The statements of a declare module; isAmbient() holds for all.
ModuleMembers == {InterfaceA, AliasT}

\* The sequences over S of length at most n.
SeqsUpTo(S, n) == UNION {[1..k -> S] : k \in 0..n}

\* declare module "mod<i>" { ... }
ModuleDeclaration(i, statements) ==
    [BlankDeclaration EXCEPT !.kind = "module",
                             !.name = "\"mod" \o ToString(i) \o "\"",
                             !.statements = statements]

ModuleLists ==
    UNION {{[i \in 1..k |-> ModuleDeclaration(i, bodies[i])] :
              bodies \in [1..k -> SeqsUpTo(ModuleMembers, MaxModuleStatements)]} :
           k \in 0..MaxModules}

\* /lib/index.d.ts and /lib/main.ts, each with its modules and its top-level
\* statements, as sourceFile.getFilePath(), getBaseName(),
\* getBaseNameWithoutExtension() and getStatements() give them.
SourceFiles ==
    {[filePath |-> "/lib/index.d.ts", baseName |-> "index.d.ts",
      baseNameWithoutExtension |-> "index", statements |-> modules \o top] :
       modules \in ModuleLists,
       top \in SeqsUpTo(DeclarationFileStatements, MaxRootStatements)}
    \cup
    {[filePath |-> "/lib/main.ts", baseName |-> "main.ts",
      baseNameWithoutExtension |-> "main", statements |-> modules \o top] :
       modules \in ModuleLists,
       top \in SeqsUpTo(ScriptFileStatements, MaxRootStatements)}

Configs ==
    {[package |-> "com.example", module |-> "", newLine |-> "", spaces |-> 0,
      tabs |-> 0, hasImports |-> FALSE, imports |-> <<>>]}

\* The module state as the variables hold it when an operation begins.
G == [counter |-> unnamedCounter, constants |-> currentConstants,
      aliases |-> typeAliases, pushed |-> 0, atModule |-> <<>>,
      synthesized |-> synthesized]

\* let unnamedCounter = 0; new Map(); const typeAliases = []
InitialG == [counter |-> 0, constants |-> <<>>, aliases |-> <<>>, pushed |-> 0,
             atModule |-> <<>>, synthesized |-> <<>>]

Init ==
    /\ unnamedCounter = 0
    /\ currentConstants = <<>>
    /\ typeAliases = <<>>
    /\ invocations = 0
    /\ call = [op |-> "none"]
    /\ result = [op |-> "none"]
    /\ synthesized = <<>>
    /\ configObject \in Configs

\* One invocation of tykonFromSource by the host program, as gradle.ts makes
\* one per source file of the project.
TykonFromSource(config, sourceFile) ==
    /\ invocations < MaxInvocations
    /\ \E r \in {tykonFromSource(config, sourceFile, G)} :
        /\ unnamedCounter' = r.g.counter
        /\ currentConstants' = r.g.constants
        /\ typeAliases' = r.g.aliases
        /\ synthesized' = r.g.synthesized
        /\ call' = [op |-> "tykonFromSource", config |-> config,
                    sourceFile |-> sourceFile, aliases |-> typeAliases]
        /\ result' = [op |-> "tykonFromSource", threw |-> r.threw,
                      outputs |-> r.outputs, pushed |-> r.g.pushed,
                      atModule |-> r.g.atModule]
    /\ invocations' = invocations + 1
    /\ UNCHANGED configObject

Next == \E config \in Configs, sourceFile \in SourceFiles :
            TykonFromSource(config, sourceFile)

Spec == Init /\ [][Next]_vars

(***************************************************************************)
(* Units with several named modules: /lib/index.d.ts with the modules      *)
(* "mod1" (or "index") and "mod2" before its top-level statements.         *)
(***************************************************************************)
\* declare module "index" { <statements> }, a module named as its file is.
ModuleNamedAsFile(statements) ==
    [ModuleDeclaration(1, statements) EXCEPT !.name = "\"index\""]

\* The statements of the modules, and the bodies built from them.
ModularMembers == {InterfaceK, InterfaceA, AliasT}

ModularBodies == SeqsUpTo(ModularMembers, MaxModuleStatements)

\* The top-level statements that follow the modules.
ModularRoots == {<<>>, <<InterfaceA>>, <<AliasT>>}

ModularFiles ==
    {[filePath |-> "/lib/index.d.ts", baseName |-> "index.d.ts",
      baseNameWithoutExtension |-> "index",
      statements |-> <<leading>> \o rest \o top] :
       leading \in {ModuleDeclaration(1, first) : first \in ModularBodies}
                    \cup {ModuleNamedAsFile(<<InterfaceK>>)},
       rest \in {<<>>} \cup {<<ModuleDeclaration(2, second)>> : second \in ModularBodies},
       top \in ModularRoots}

NextModules == \E config \in Configs, sourceFile \in ModularFiles :
                   TykonFromSource(config, sourceFile)

SpecModules == Init /\ [][NextModules]_vars

(***************************************************************************)
(* The type mapper on its own: utils.convertToKotlinType is exported and   *)
(* is called with a type text and its two flags.                           *)
(***************************************************************************)
\* T followed by n pairs of brackets.
Arrayed(type, n) == type \o Repeat("[]", n)

\* The base types that are put under the brackets.
Atoms == {"string", "number", "boolean", "Foo", "\"a\"", "Foo['k']"}

\* The members of the two-member unions.
UnionMembers == {"string", "number", "undefined", "null", "\"a\"", "\"b\""}

Unions == {a \o " | " \o b : a \in UnionMembers, b \in UnionMembers}

\* Identifiers that begin with the letters of a keyword the mapper tests for.
KeywordLike == {"newFoo", "typeofX", "readonlyList", "keyofK", "importFoo"}

\* Types under a prefix, function types, generic types and the type this.
Nested ==
    {"typeof Foo", "readonly string[]", "readonly [string, number]", "new () => Foo",
     "(x: string) => void", "(x: keyof T) => void", "Map<string, Foo & Bar>",
     "Array<keyof T>", "this"}

\* Types named as members of Object.prototype are.
MemberNamed ==
    {"toString", "valueOf[]", "toString<string>", "Readonly<constructor>",
     "\"a\" | hasOwnProperty<string>", "typeof toString"}

TypeTexts ==
    {Arrayed(a, n) : a \in Atoms, n \in 0..MaxArrayDepth} \cup Unions \cup KeywordLike
    \cup Nested \cup MemberNamed

\* One call of convertToKotlinType; currentConstants.set is its only effect.
MapType(type, strict, noDynamic) ==
    \E r \in {convertToKotlinType(type, strict, noDynamic)} :
        /\ currentConstants' = SetConstants(currentConstants, r.lits)
        /\ call' = [op |-> "convertToKotlinType", type |-> type, strict |-> strict,
                    noDynamic |-> noDynamic]
        /\ result' = [op |-> "convertToKotlinType", text |-> r.text,
                      value |-> r.value]
        /\ UNCHANGED <<unnamedCounter, typeAliases, invocations, synthesized,
                       configObject>>

NextTypes == \E type \in TypeTexts, strict \in BOOLEAN, noDynamic \in BOOLEAN :
                 MapType(type, strict, noDynamic)

SpecTypes == Init /\ [][NextTypes]_vars

(***************************************************************************)
(* createMethods on its own, for a class whose methods are overloads.      *)
(***************************************************************************)
\* foo(a: string): string; foo(a: string): number; foo(a: number): number;
\* foo(a?: string): string; bar(): void
Overloads ==
    {Method("foo", <<Parameter("a", "string", FALSE)>>, "string"),
     Method("foo", <<Parameter("a", "string", FALSE)>>, "number"),
     Method("foo", <<Parameter("a", "number", FALSE)>>, "number"),
     Method("foo", <<Parameter("a", "string", TRUE)>>, "string"),
     Method("bar", <<>>, "void")}

\* declare class A { <methods> }
ClassWith(methods) ==
    [BlankDeclaration EXCEPT !.kind = "class", !.name = "A", !.methods = methods]

\* One call of createMethods, as generateClass and generateInterface make it.
CreateMethods(config, declaration) ==
    \E r \in {createMethods(declaration, config, G)} :
        /\ unnamedCounter' = r.g.counter
        /\ currentConstants' = r.g.constants
        /\ typeAliases' = r.g.aliases
        /\ synthesized' = r.g.synthesized
        /\ call' = [op |-> "createMethods", config |-> config,
                    declaration |-> declaration, g |-> G]
        /\ result' = [op |-> "createMethods", text |-> r.text]
        /\ UNCHANGED <<invocations, configObject>>

NextMethods == \E config \in Configs, methods \in SeqsUpTo(Overloads, MaxMethods) :
                   CreateMethods(config, ClassWith(methods))

SpecMethods == Init /\ [][NextMethods]_vars

(***************************************************************************)
(* Units of one module, for every module name of a few characters:         *)
(* /lib/index.d.ts with declare module "<name>" {}.                        *)
(***************************************************************************)
MaxNameLen == 3

\* The characters of the module names.
NameChars == {"a", "B", "1", ":", "-", "/"}

RECURSIVE Concat(_)
Concat(xs) == IF Len(xs) = 0 THEN "" ELSE Head(xs) \o Concat(Tail(xs))

\* module.getName() keeps the quotes of the source.
ModuleNames ==
    {"\"" \o Concat(cs) \o "\"" :
        cs \in UNION {[1..k -> NameChars] : k \in 1..MaxNameLen}}

NamedFiles ==
    {[filePath |-> "/lib/index.d.ts", baseName |-> "index.d.ts",
      baseNameWithoutExtension |-> "index",
      statements |-> <<[ModuleDeclaration(1, <<>>) EXCEPT !.name = name]>>] :
       name \in ModuleNames}

NextFileNames == \E config \in Configs, sourceFile \in NamedFiles :
                     TykonFromSource(config, sourceFile)

SpecFileNames == Init /\ [][NextFileNames]_vars

(***************************************************************************)
(* Units of one or two declarations that carry extends clauses, optional   *)
(* parameters, type parameters and type aliases of every branch of         *)
(* generateTypeAlias.                                                      *)
(***************************************************************************)
\* <name extends constraint = default>; "" where the source has none.
TypeParameter(name, constraint, default) ==
    [name |-> name, constraint |-> constraint, default |-> default]

\* An extends clause that resolves to the class P, which declares foo().
ExtendsP ==
    [text |-> "P", isObject |-> TRUE, typeArgs |-> <<>>, hasSymbol |-> TRUE,
     symbolName |-> "P",
     decls |-> <<[kind |-> "class", name |-> "P", properties |-> <<>>,
                  methods |-> <<"foo">>]>>]

\* class C extends P { foo(): void; toString(): string; equals(o: any): boolean }
ClassChild ==
    [BlankDeclaration EXCEPT
        !.kind = "class", !.name = "C", !.extends = <<ExtendsP>>,
        !.methods = <<Method("foo", <<>>, "void"), Method("toString", <<>>, "string"),
                      Method("equals", <<Parameter("o", "any", FALSE)>>, "boolean")>>]

\* class D { constructor(a: string | null, b?: string); m(c: number, d?: string): void;
\*           static s(e: number, f?: string): void }
\* under strictNullChecks, where the type of b is string | undefined and the
\* types of a and of b are nullable
ClassOptional ==
    [BlankDeclaration EXCEPT
        !.kind = "class", !.name = "D",
        !.constructors =
            <<[params |-> <<[Parameter("a", "string | null", FALSE) EXCEPT !.nullable = TRUE],
                            Parameter("b", "string | undefined", TRUE)>>,
               docs |-> <<>>]>>,
        !.methods = <<Method("m", <<Parameter("c", "number", FALSE),
                                    Parameter("d", "string", TRUE)>>, "void"),
                      [Method("s", <<Parameter("e", "number", FALSE),
                                     Parameter("f", "string", TRUE)>>, "void")
                          EXCEPT !.static = TRUE]>>]

\* class E { constructor(b?: string) } without strictNullChecks, where the
\* type of b is string
ClassOptionalLoose ==
    [BlankDeclaration EXCEPT
        !.kind = "class", !.name = "E",
        !.constructors =
            <<[params |-> <<[Parameter("b", "string", TRUE) EXCEPT !.nullable = FALSE]>>,
               docs |-> <<>>]>>]

\* export function f(q: number, p?: string): void
FunctionOptional ==
    [BlankDeclaration EXCEPT
        !.kind = "function", !.name = "f",
        !.params = <<Parameter("q", "number", FALSE), Parameter("p", "string", TRUE)>>]

\* class G<T, N = never> { m<U, V = never>(): void }
ClassNeverDefault ==
    [BlankDeclaration EXCEPT
        !.kind = "class", !.name = "G",
        !.typeParams = <<TypeParameter("T", "", ""), TypeParameter("N", "", "never")>>,
        !.methods = <<[Method("m", <<>>, "void") EXCEPT
                          !.typeParams = <<TypeParameter("U", "", ""),
                                           TypeParameter("V", "", "never")>>]>>]

\* class W<T extends A & B, S extends Foo, R extends any> { m<U extends keyof T>(): void }
ClassBounded ==
    [BlankDeclaration EXCEPT
        !.kind = "class", !.name = "W",
        !.typeParams = <<TypeParameter("T", "A & B", ""), TypeParameter("S", "Foo", ""),
                         TypeParameter("R", "any", "")>>,
        !.methods = <<[Method("m", <<>>, "void") EXCEPT
                          !.typeParams = <<TypeParameter("U", "keyof T", "")>>]>>]

\* interface X<T extends A & B, S extends Foo> {}
InterfaceBounded ==
    [BlankDeclaration EXCEPT
        !.kind = "interface", !.name = "X",
        !.typeParams = <<TypeParameter("T", "A & B", ""), TypeParameter("S", "Foo", "")>>]

\* interface M<T> {} and interface M<T, U> {}, two declarations of one symbol
InterfaceM1 ==
    [BlankDeclaration EXCEPT !.kind = "interface", !.name = "M",
                             !.typeParams = <<TypeParameter("T", "", "")>>]

InterfaceM2 ==
    [BlankDeclaration EXCEPT !.kind = "interface", !.name = "M",
                             !.typeParams = <<TypeParameter("T", "", ""),
                                              TypeParameter("U", "", "")>>]

\* A property signature of an object type, and a type of an intersection.
AliasProperty(name, type, question) ==
    [name |-> name, type |-> type, question |-> question, hasDeclaration |-> TRUE,
     isPropertySignature |-> TRUE, docs |-> <<>>]

IntersectionType(text, properties) ==
    [text |-> text, isTypeParameter |-> FALSE, properties |-> properties]

AliasNamed(name) == [BlankDeclaration EXCEPT !.kind = "typeAlias", !.name = name]

\* type I1 = Foo & { s?: boolean }
AliasInline ==
    [AliasNamed("I1") EXCEPT
        !.alias.typeText = "Foo & { s?: boolean }", !.alias.isIntersection = TRUE,
        !.alias.isObject = TRUE,
        !.alias.intersectionTypes =
            <<IntersectionType("Foo", <<>>),
              IntersectionType("{ s?: boolean }",
                               <<AliasProperty("s", "boolean", TRUE)>>)>>]

\* type I2 = Foo & Bar
AliasIntersection ==
    [AliasNamed("I2") EXCEPT
        !.alias.typeText = "Foo & Bar", !.alias.isIntersection = TRUE,
        !.alias.isObject = TRUE,
        !.alias.intersectionTypes =
            <<IntersectionType("Foo", <<>>), IntersectionType("Bar", <<>>)>>]

\* type C1<T extends A & B> = T extends string ? Foo : never
AliasConditionalFalsy ==
    [AliasNamed("C1") EXCEPT
        !.typeParams = <<TypeParameter("T", "A & B", "")>>,
        !.alias.typeText = "T extends string ? Foo : never",
        !.alias.isConditional = TRUE, !.alias.conditionalNode = TRUE,
        !.alias.trueText = "Foo", !.alias.falseText = "never"]

\* type C2<T extends Foo> = T extends string ? Foo : Bar
AliasConditional ==
    [AliasNamed("C2") EXCEPT
        !.typeParams = <<TypeParameter("T", "Foo", "")>>,
        !.alias.typeText = "T extends string ? Foo : Bar",
        !.alias.isConditional = TRUE, !.alias.conditionalNode = TRUE,
        !.alias.trueText = "Foo", !.alias.falseText = "Bar"]

\* type C4<T> = T extends string ? Foo : Foo
AliasConditionalSame ==
    [AliasNamed("C4") EXCEPT
        !.typeParams = <<TypeParameter("T", "", "")>>,
        !.alias.typeText = "T extends string ? Foo : Foo",
        !.alias.isConditional = TRUE, !.alias.conditionalNode = TRUE,
        !.alias.trueText = "Foo", !.alias.falseText = "Foo"]

\* type C3 = C2<string>: a conditional type whose node is a type reference
AliasConditionalReference ==
    [AliasNamed("C3") EXCEPT
        !.alias.typeText = "C2<string>", !.alias.isConditional = TRUE]

\* type L = string[]
AliasArray ==
    [AliasNamed("L") EXCEPT
        !.alias.typeText = "string[]", !.alias.isObject = TRUE, !.alias.isArray = TRUE,
        !.alias.arrayElementType = "string"]

\* type O = { p: string; q?: "a" }
AliasObject ==
    [AliasNamed("O") EXCEPT
        !.alias.typeText = "{ p: string; q?: \"a\" }", !.alias.isObject = TRUE,
        !.alias.properties = <<AliasProperty("p", "string", FALSE),
                               AliasProperty("q", "\"a\"", TRUE)>>]

\* type __Hidden = string and type WebSocket = string, which the skip tests drop
AliasPrivate ==
    [AliasNamed("__Hidden") EXCEPT !.alias.typeText = "string"]

AliasNotExposed ==
    [AliasNamed("WebSocket") EXCEPT !.alias.typeText = "string"]

Declarations ==
    {ClassChild, ClassOptional, ClassOptionalLoose, FunctionOptional,
     ClassNeverDefault, ClassBounded, InterfaceBounded, InterfaceM1, InterfaceM2,
     AliasT, AliasInline, AliasIntersection, AliasConditionalFalsy, AliasConditional,
     AliasConditionalSame, AliasConditionalReference, AliasArray, AliasObject, AliasPrivate, AliasNotExposed}

\* The declarations that stand beside another one in a unit.
Companions == {InterfaceK, FunctionH, InterfaceM2, AliasObject}

DeclarationFiles ==
    {[filePath |-> "/lib/index.d.ts", baseName |-> "index.d.ts",
      baseNameWithoutExtension |-> "index", statements |-> statements] :
       statements \in {<<d>> : d \in Declarations}
                      \cup {<<d, c>> : d \in Declarations, c \in Companions}}

NextDeclarations == \E config \in Configs, sourceFile \in DeclarationFiles :
                        TykonFromSource(config, sourceFile)

SpecDeclarations == Init /\ [][NextDeclarations]_vars

(***************************************************************************)
(* A host that builds one config object and hands the same object to       *)
(* tykonFromSource again and again.                                        *)
(***************************************************************************)
\* The config objects of the host: without an import list, with an empty one,
\* and with the list of the test ('kotlin.collections.List').
HostConfigs ==
    {[config EXCEPT !.hasImports = imports[1], !.imports = imports[2]] :
        config \in Configs,
        imports \in {<<FALSE, <<>>>>, <<TRUE, <<>>>>,
                     <<TRUE, <<"kotlin.collections.List">>>>}}

\* The units handed over with the kept config object.
ConfigFiles ==
    {[filePath |-> "/lib/index.d.ts", baseName |-> "index.d.ts",
      baseNameWithoutExtension |-> "index", statements |-> statements] :
       statements \in {<<d>> : d \in Declarations}
                      \cup {<<ModuleDeclaration(1, <<InterfaceK>>)>>,
                            <<ModuleDeclaration(1, <<InterfaceK>>), InterfaceA>>,
                            <<ModuleDeclaration(1, <<AliasT>>),
                              ModuleDeclaration(2, <<InterfaceA>>)>>}}

\* const config = { package: ..., imports: ... }
CreateConfig(config) ==
    /\ configObject' = config
    /\ call' = [op |-> "createConfig", config |-> config]
    /\ result' = [op |-> "createConfig"]
    /\ UNCHANGED <<unnamedCounter, currentConstants, typeAliases, invocations,
                   synthesized>>

\* One invocation of tykonFromSource with the config object the host keeps:
\* config.imports = []; config.imports.push('kotlin.js.*') writes to that object.
TykonFromSourceKept(sourceFile) ==
    /\ invocations < MaxInvocations
    /\ \E r \in {tykonFromSource(configObject, sourceFile, G)} :
        /\ unnamedCounter' = r.g.counter
        /\ currentConstants' = r.g.constants
        /\ typeAliases' = r.g.aliases
        /\ synthesized' = r.g.synthesized
        /\ call' = [op |-> "tykonFromSource", config |-> configObject,
                    sourceFile |-> sourceFile, aliases |-> typeAliases, kept |-> TRUE]
        /\ result' = [op |-> "tykonFromSource", threw |-> r.threw,
                      outputs |-> r.outputs, pushed |-> r.g.pushed,
                      atModule |-> r.g.atModule]
    /\ configObject' = withDefaultImports(configObject)
    /\ invocations' = invocations + 1

NextConfig ==
    \/ \E config \in HostConfigs : CreateConfig(config)
    \/ \E sourceFile \in ConfigFiles : TykonFromSourceKept(sourceFile)

SpecConfig == Init /\ [][NextConfig]_vars

(***************************************************************************)
(* findName on its own, between calls of the type mapper.                  *)
(***************************************************************************)
MaxCounter == 3

\* declaration.getName() of the declarations named: none, plain, quoted,
\* dotted, brace-delimited, bracket-computed, reserved, punctuated.
NameTexts ==
    {"", "foo", "\"foo\"", "a.b", "a.in", "{ a }", "[\"a\"]", "[k]", "as",
     "object", "my-name", "1st", "a b", "a/b"}

\* The type texts mapped between the calls of findName.
NameLiterals == {"\"a\"", "string"}

\* One call of findName; the counter is its only effect.
FindName(name) ==
    /\ unnamedCounter < MaxCounter
    /\ \E r \in {findName(name, G)} :
        /\ unnamedCounter' = r.g.counter
        /\ synthesized' = r.g.synthesized
        /\ call' = [op |-> "findName", name |-> name, g |-> G]
        /\ result' = [op |-> "findName", name |-> r.name]
        /\ UNCHANGED <<currentConstants, typeAliases, invocations, configObject>>

NextNames ==
    \/ \E name \in NameTexts : FindName(name)
    \/ \E type \in NameLiterals : MapType(type, FALSE, FALSE)

SpecNames == Init /\ [][NextNames]_vars

(***************************************************************************)
(* Properties of the orchestrator (Spec).                                  *)
(***************************************************************************)
\* The last call of tykonFromSource returned its artifact map.
Returned == result.op = "tykonFromSource" /\ ~result.threw

\* The positions of s at which p stands, and their number.
Positions(s, p) == {i \in 1..(Len(s) - Len(p) + 1) : SubSeq(s, i, i + Len(p) - 1) = p}

Occurrences(s, p) == Cardinality(Positions(s, p))

\* The artifacts of the returned map whose text holds p, and those named name.
ArtifactsWith(p) ==
    {i \in 1..Len(result.outputs) : Positions(result.outputs[i].text, p) # {}}

ArtifactsNamed(name) ==
    {i \in 1..Len(result.outputs) : result.outputs[i].name = name}

\* The texts of all returned artifacts, one after the other.
AllText == Join([i \in 1..Len(result.outputs) |-> result.outputs[i].text], "")

\* statements holds an ambient declaration of the kind and the name.
Declares(statements, kind, name) ==
    \E i \in 1..Len(statements) :
        /\ statements[i].kind = kind
        /\ statements[i].name = name
        /\ statements[i].ambient

\* A module of the unit of the last call holds such a declaration.
ModuleDeclares(kind, name) ==
    \E i \in 1..Len(call.sourceFile.statements) :
        /\ call.sourceFile.statements[i].kind = "module"
        /\ Declares(call.sourceFile.statements[i].statements, kind, name)

\* C1: the pending alias buffer never straddles two invocations: typeAliases
\* is empty whenever an invocation of tykonFromSource begins, also after an
\* invocation that threw when aliases were already buffered.
C1_BufferEmptyWhenInvocationBegins ==
    call.op = "tykonFromSource" => call.aliases = <<>>

\* C2: the artifact map tykonFromSource returns for a unit is the map it
\* returns when the unit is the first one the process handles, whatever units
\* were handled before it.
C2_OutputIndependentOfEarlierUnits ==
    result.op = "tykonFromSource" =>
        /\ result.threw = tykonFromSource(call.config, call.sourceFile, InitialG).threw
        /\ result.outputs = tykonFromSource(call.config, call.sourceFile, InitialG).outputs

\* C3: merge law: a unit that declares an ambient class A and an ambient
\* interface A is emitted with exactly one declaration of A, in class form,
\* that holds the members of both (x of the class, y of the interface), and
\* with no interface declaration of A.
C3_MergeLaw ==
    (/\ Returned
     /\ Declares(call.sourceFile.statements, "class", "A")
     /\ Declares(call.sourceFile.statements, "interface", "A"))
    => /\ Occurrences(AllText, "external class A") = 1
       /\ Occurrences(AllText, "external interface A") = 0
       /\ Occurrences(AllText, "var x: ") = 1
       /\ Occurrences(AllText, "var y: ") = 1

\* C4: ownership law: an interface A declared at the root of a unit and in a
\* module of it is emitted in the artifact of exactly one container, the root
\* one (<base>.d.kt); the artifact of the module holds nothing for A.
C4_OwnershipLaw ==
    (/\ Returned
     /\ Declares(call.sourceFile.statements, "interface", "A")
     /\ ModuleDeclares("interface", "A"))
    => /\ Cardinality(ArtifactsWith("external interface A")) = 1
       /\ ArtifactsWith("external interface A")
          = ArtifactsNamed(call.sourceFile.baseNameWithoutExtension \o ".d.kt")

\* C10: the returned artifact map holds the alias artifact <base>.types.d.kt
\* if and only if at least one alias or creator entry was buffered during the
\* invocation, and it never holds more than one alias artifact.
C10_AliasArtifactIffBuffered ==
    Returned =>
        /\ (ArtifactsNamed(call.sourceFile.baseNameWithoutExtension \o ".types.d.kt")
            # {}) <=> (result.pushed > 0)
        /\ Cardinality({i \in 1..Len(result.outputs) :
                          EndsWith(result.outputs[i].name, ".types.d.kt")}) <= 1

(***************************************************************************)
(* Properties of createMethods (SpecMethods).                              *)
(***************************************************************************)
\* The members createMethods emitted: the pieces of its output that end with
\* two line ends.
Members ==
    SubSeq(Split(result.text, NewLine(call.config) \o NewLine(call.config)), 1,
           Len(Split(result.text, NewLine(call.config) \o NewLine(call.config))) - 1)

\* A member up to the closing parenthesis of its parameters, and what follows.
MemberHead(member) == Sub(member, 1, LastIndexOf(member, ")"))

MemberSuffix(member) == Sub(member, LastIndexOf(member, ")") + 1, Len(member))

\* The name of a member: what stands between "fun " and the parenthesis.
MemberName(member) == Sub(member, IndexOf(member, "fun ") + 4, IndexOf(member, "(") - 1)

\* The members emitted under a name, and under a normalized rendering.
MembersNamed(name) == {k \in 1..Len(Members) : MemberName(Members[k]) = name}

MembersKeyed(key) ==
    {k \in 1..Len(Members) : normalizedMethod(MemberHead(Members[k])) = key}

\* The entries the first loop of createMethods built for the last call, and
\* the entries among them with a given normalized rendering.
Rendered == methodOutputOf(call.declaration, call.config, call.g).out

RenderedKeyed(key) == {i \in 1..Len(Rendered) : normalizedMethod(Rendered[i].method) = key}

MappedByDefault ==
    call.op = "convertToKotlinType" /\ ~call.strict /\ ~call.noDynamic

\* t wrapped in n layers of Array<...>.
RECURSIVE NestedArray(_, _)
NestedArray(t, n) == IF n = 0 THEN t ELSE "Array<" \o NestedArray(t, n - 1) \o ">"

\* The union members that are neither undefined nor null.
SolidMembers == UnionMembers \ {"undefined", "null"}

\* The quoted literals among the union members, and the unions of two of them.
Literals == {"\"a\"", "\"b\""}

LiteralUnions == {a \o " | " \o b : a \in Literals, b \in Literals}

\* C6: nullable law: with the default flags a union of two members of which
\* one is undefined or null maps to the mapping of the other member marked
\* nullable; string | undefined and string | null map to String?.
C6_NullableLaw ==
    \A base \in SolidMembers, nothing \in {"undefined", "null"} :
        (MappedByDefault /\ call.type \in {base \o " | " \o nothing,
                                           nothing \o " | " \o base})
        => result.text = convertToKotlinType(base, FALSE, FALSE).text \o "?"

\* C7: a union of two members that map to different types, such as
\* string | number, maps to the opaque fallback whose comment is the source
\* text of the union: dynamic /* string | number */.
C7_FallbackCarriesSourceText ==
    \A a \in SolidMembers, b \in SolidMembers :
        (/\ MappedByDefault
         /\ call.type = a \o " | " \o b
         /\ convertToKotlinType(a, FALSE, FALSE).text
            # convertToKotlinType(b, FALSE, FALSE).text)
        => result.text = "dynamic /* " \o call.type \o " */"

\* C8 as the specification states it, for every call of the mapper: a union
\* of string literals such as "a" | "b" maps to the type string maps to, and
\* after the call currentConstants maps the quoted text of each literal of
\* the union to its bare value.
C8_LiteralUnionCollapsesAlways ==
    \A a \in Literals, b \in Literals :
        (call.op = "convertToKotlinType" /\ call.type = a \o " | " \o b)
        => /\ result.text = convertToKotlinType("string", FALSE, call.noDynamic).text
           /\ {a, b} \subseteq DOMAIN currentConstants
           /\ currentConstants[a] = Sub(a, 2, Len(a) - 1)
           /\ currentConstants[b] = Sub(b, 2, Len(b) - 1)

\* C8 as the code has it: the union collapse law holds when strict is not
\* set (with strict set the mapper returns the fallback before it reaches the
\* union).  A union of string literals such as "a" | "b" then maps to the
\* type string maps to, and after the call currentConstants maps the quoted
\* text of each literal of the union to its bare value.
C8_LiteralUnionCollapses ==
    \A a \in Literals, b \in Literals :
        (call.op = "convertToKotlinType" /\ ~call.strict
         /\ call.type = a \o " | " \o b)
        => /\ result.text = convertToKotlinType("string", FALSE, call.noDynamic).text
           /\ {a, b} \subseteq DOMAIN currentConstants
           /\ currentConstants[a] = Sub(a, 2, Len(a) - 1)
           /\ currentConstants[b] = Sub(b, 2, Len(b) - 1)

\* "a" | "b" has been mapped to String and both literals are in the table.
C8_Witness ==
    /\ MappedByDefault
    /\ call.type = "\"a\" | \"b\""
    /\ result.text = "String"
    /\ "\"a\"" \in DOMAIN currentConstants
    /\ "\"b\"" \in DOMAIN currentConstants
    /\ currentConstants["\"a\""] = "a"
    /\ currentConstants["\"b\""] = "b"

\* C9: array wrapping depth: with the default flags a base type that is not
\* an array, followed by n >= 1 pairs of brackets, maps to the mapping of the
\* base type in exactly n layers of Array<...>.
C9_ArrayWrappingDepth ==
    \A base \in Atoms, n \in 1..MaxArrayDepth :
        (MappedByDefault /\ call.type = Arrayed(base, n))
        => result.text = NestedArray(convertToKotlinType(base, FALSE, FALSE).text, n)

(***************************************************************************)
(* Properties of units with several modules (SpecModules).                 *)
(***************************************************************************)
\* C11: currentConstants is empty whenever tykonFromModule begins: a literal
\* recorded while one module was emitted is not in the table when a later
\* module of the unit begins.
C11_TableEmptyAtModuleBoundary ==
    result.op = "tykonFromSource" =>
        \A i \in 1..Len(result.atModule) : DOMAIN result.atModule[i] = {}

(***************************************************************************)
(* Properties of findName (SpecNames).                                     *)
(***************************************************************************)
\* C12: a bracket-computed name [X] whose X is a key of currentConstants when
\* findName begins resolves to the value recorded for X.
C12_ComputedNameResolves ==
    call.op = "findName" =>
        \A x \in DOMAIN call.g.constants :
            call.name = "[" \o x \o "]" => result.name = call.g.constants[x]

\* A name that Kotlin takes as an identifier only between grave accents: a
\* reserved word of specialNames, a name that begins with a digit, a name with
\* a hyphen, a blank or a slash.
NeedsEscape(name) ==
    \/ SeqIncludes(specialNames, name)
    \/ Sub(name, 1, 1) \in Digits
    \/ Includes(name, "-")
    \/ Includes(name, " ")
    \/ Includes(name, "/")

Escaped(name) == Len(name) >= 2 /\ StartsWith(name, BackTick) /\ EndsWith(name, BackTick)

\* C13: the name findName returns is a valid identifier: it is wrapped in grave
\* accents whenever it is a reserved word, begins with a digit or holds a
\* hyphen, a blank or a slash.
C13_ReturnedNameIsIdentifier ==
    call.op = "findName" => (Escaped(result.name) \/ ~NeedsEscape(result.name))

\* The numbers the made-up names carry, in the order of synthesized.
SynthesizedNumber(name) ==
    IF StartsWith(name, "Unnamed") THEN Sub(name, 8, Len(name)) ELSE Sub(name, 7, Len(name))

\* C14: unnamedCounter never decreases and no made-up name is returned twice,
\* whichever of the forms Unnamed<N> and object<N> each call makes up.
C14_SynthesizedNamesDistinct ==
    [][/\ unnamedCounter' >= unnamedCounter
       /\ \A i \in 1..Len(synthesized') : \A j \in 1..Len(synthesized') :
              i # j => synthesized'[i] # synthesized'[j]]_vars

\* C14 as stated: no two made-up names carry the same number.
C14_SynthesizedNumbersDistinct ==
    \A i \in 1..Len(synthesized) : \A j \in 1..Len(synthesized) :
        i # j => SynthesizedNumber(synthesized[i]) # SynthesizedNumber(synthesized[j])

\* findName has made up names of both forms, the last of them in the call
\* that has just returned.
C14_Witness ==
    /\ call.op = "findName"
    /\ Len(synthesized) > Len(call.g.synthesized)
    /\ \E i \in 1..Len(synthesized) : StartsWith(synthesized[i], "Unnamed")
    /\ \E i \in 1..Len(synthesized) : StartsWith(synthesized[i], "object")

(***************************************************************************)
(* Properties of the emission order (Spec).                                *)
(***************************************************************************)
\* C15: in every artifact of the returned map the classes stand before the
\* interfaces, whatever the order of the declarations in the source.
C15_ClassesBeforeInterfaces ==
    Returned =>
        \A i \in 1..Len(result.outputs) :
            \A p \in Positions(result.outputs[i].text, "external class") :
                \A q \in Positions(result.outputs[i].text, "external interface") :
                    p < q

(***************************************************************************)
(* Properties of the order of the artifacts (SpecModules).                 *)
(***************************************************************************)
\* The artifact names of the unit of the last call, container by container:
\* its modules in the order of the source, then its root container, then the
\* alias artifact where the returned map holds one.
ContainerOrder ==
    LET file == call.sourceFile
        modules == OfKind(file.statements, "module")
        top == Filter(LAMBDA d : d.kind # "module", file.statements)
        base == getValidFileName(file.baseNameWithoutExtension)
    IN  [i \in 1..Len(modules) |-> getValidFileName(modules[i].name) \o ".d.kt"]
        \o (IF Len(modules) = 0 \/ Len(top) > 0 THEN <<base \o ".d.kt">> ELSE <<>>)
        \o (IF ArtifactsNamed(base \o ".types.d.kt") # {}
            THEN <<base \o ".types.d.kt">> ELSE <<>>)

\* The place of the first container that gives an artifact its name.
FirstSet(name) ==
    CHOOSE i \in 1..Len(ContainerOrder) :
        /\ ContainerOrder[i] = name
        /\ \A j \in 1..(i - 1) : ContainerOrder[j] # name

\* C16: the returned artifact map holds the artifacts of the containers in the
\* order in which a map filled module by module in discovery order, then with
\* the root container, then with the alias artifact, holds them.
C16_ContainersInDiscoveryOrder ==
    Returned =>
        /\ {result.outputs[i].name : i \in 1..Len(result.outputs)}
           = {ContainerOrder[i] : i \in 1..Len(ContainerOrder)}
        /\ \A p \in 1..Len(result.outputs) : \A q \in 1..Len(result.outputs) :
               p < q => FirstSet(result.outputs[p].name) < FirstSet(result.outputs[q].name)

\* A unit of two modules, a root container and buffered aliases has returned
\* its four artifacts.
C16_Witness ==
    /\ Returned
    /\ Len(OfKind(call.sourceFile.statements, "module")) = 2
    /\ Len(result.outputs) = 4
    /\ EndsWith(result.outputs[4].name, ".types.d.kt")

(***************************************************************************)
(* Properties of the fatal error (Spec).                                   *)
(***************************************************************************)
\* The unit hands a declaration that is not ambient to generateFunction,
\* generateClass, generateInterface or generateTypeAlias: it has modules, and
\* such a declaration stands among its top-level statements.
NonAmbientReachesEmitter(sourceFile) ==
    /\ Len(OfKind(sourceFile.statements, "module")) > 0
    /\ \E i \in 1..Len(sourceFile.statements) :
           /\ sourceFile.statements[i].kind
              \in {"function", "class", "interface", "typeAlias"}
           /\ ~sourceFile.statements[i].ambient
           /\ ~sourceFile.statements[i].declare

\* C17: a call of tykonFromSource in which a declaration that is not ambient
\* reaches its emitter throws and returns no artifact map, not even the
\* artifacts of the modules emitted before the throw.
C17_NonAmbientAborts ==
    (call.op = "tykonFromSource" /\ NonAmbientReachesEmitter(call.sourceFile))
        => (result.threw /\ result.outputs = <<>>)

\* A unit with a module and, at top level, a class that is not ambient has
\* been processed.
C17_Witness ==
    /\ call.op = "tykonFromSource"
    /\ NonAmbientReachesEmitter(call.sourceFile)
    /\ \E i \in 1..Len(call.sourceFile.statements) :
           call.sourceFile.statements[i] = ClassG

(***************************************************************************)
(* Properties of the type mapper: totality, noDynamic, the fallback        *)
(* (SpecTypes).                                                            *)
(***************************************************************************)
\* C18: every call of convertToKotlinType returns, and what it returns is a
\* string: no call throws and no call hands back a value of another type.
C18_MapperReturnsString ==
    call.op = "convertToKotlinType" => result.value = "string"

\* C19: a call with noDynamic = true returns a text without the marker dynamic.
C19_NoDynamicMarker ==
    (call.op = "convertToKotlinType" /\ call.noDynamic /\ result.value = "string")
        => ~Includes(result.text, "dynamic")

\* The letters and digits a plain identifier is made of.
IdentifierChars ==
    {"a", "b", "c", "d", "e", "f", "g", "h", "i", "j", "k", "l", "m", "n", "o", "p",
     "q", "r", "s", "t", "u", "v", "w", "x", "y", "z", "A", "B", "C", "D", "E", "F",
     "G", "H", "I", "J", "K", "L", "M", "N", "O", "P", "Q", "R", "S", "T", "U", "V",
     "W", "X", "Y", "Z"} \cup Digits

PlainIdentifier(type) ==
    type # "" /\ \A i \in 1..Len(type) : Sub(type, i, i) \in IdentifierChars

\* C20: with the default strict = false a plain identifier that is no key of
\* types maps to itself.
C20_IdentifierMapsToItself ==
    (/\ call.op = "convertToKotlinType"
     /\ ~call.strict
     /\ PlainIdentifier(call.type)
     /\ call.type \notin DOMAIN types)
        => (result.value = "string" /\ result.text = call.type)

(***************************************************************************)
(* Properties of the artifact map (Spec, SpecModules).                     *)
(***************************************************************************)
\* C21: a unit without modules in whose invocation no alias entry is buffered
\* returns a map of exactly one artifact, <base>.d.kt.
C21_SingleArtifact ==
    (/\ Returned
     /\ Len(OfKind(call.sourceFile.statements, "module")) = 0
     /\ result.pushed = 0)
        => /\ Len(result.outputs) = 1
           /\ result.outputs[1].name
              = getValidFileName(call.sourceFile.baseNameWithoutExtension) \o ".d.kt"

(***************************************************************************)
(* Properties of the artifact names (SpecFileNames).                       *)
(***************************************************************************)
\* The characters a normalised name is made of: a-z, 0-9, _ and -.
ValidFileNameChars == {c \in IdentifierChars : lowerChar(c) = c} \cup {"_", "-"}

\* name without its surrounding double quotes, lower-cased, each : replaced
\* by -, and the characters outside a-z, 0-9, _ and - removed.
RECURSIVE Cleaned(_)
Cleaned(name) ==
    IF StartsWith(name, "\"") /\ EndsWith(name, "\"") /\ Len(name) >= 2
    THEN Cleaned(Sub(name, 2, Len(name) - 1))
    ELSE IF name = "" THEN ""
    ELSE LET c == lowerChar(Sub(name, 1, 1))
             d == IF c = ":" THEN "-" ELSE c
         IN  (IF d \in ValidFileNameChars THEN d ELSE "") \o Cleaned(Sub(name, 2, Len(name)))

\* The longest prefix of name that does not end with -.
Untrailed(name) ==
    LET ends == {n \in 0..Len(name) : n = 0 \/ Sub(name, n, n) # "-"}
    IN  Sub(name, 1, CHOOSE n \in ends : \A m \in ends : m <= n)

\* The artifact name without its suffix, .types.d.kt or .d.kt.
Stem(artifact) ==
    IF EndsWith(artifact, ".types.d.kt") THEN Sub(artifact, 1, Len(artifact) - 11)
    ELSE Sub(artifact, 1, Len(artifact) - 5)

\* C22: the name of the artifact of a module is the normalised module name
\* followed by the suffix .d.kt; the normalised name is made of a-z, 0-9, _
\* and -, does not end with -, and is left unchanged by getValidFileName.
C22_ArtifactNameNormalised ==
    (Returned /\ Len(result.outputs) > 0) =>
        /\ EndsWith(result.outputs[1].name, ".d.kt")
        /\ Stem(result.outputs[1].name)
           = Untrailed(Cleaned(call.sourceFile.statements[1].name))
        /\ \A i \in 1..Len(result.outputs) :
               /\ \A k \in 1..Len(Stem(result.outputs[i].name)) :
                      Sub(Stem(result.outputs[i].name), k, k) \in ValidFileNameChars
               /\ ~EndsWith(Stem(result.outputs[i].name), "-")
               /\ getValidFileName(Stem(result.outputs[i].name))
                  = Stem(result.outputs[i].name)

\* The module "a:/" has given the artifact a.d.kt: the colon became a hyphen,
\* the slash was removed and the hyphen, then the last character, was trimmed.
C22_Witness ==
    /\ Returned
    /\ call.sourceFile.statements[1].name = "\"a:/\""
    /\ result.outputs[1].name = "a.d.kt"

\* A declaration that an extends clause of the declaration resolves to, Error
\* excluded, declares a method of the name.
InheritsMethod(declaration, methodName) ==
    \E e \in 1..Len(declaration.extends) :
        \E j \in 1..Len(declaration.extends[e].decls) :
            LET d == declaration.extends[e].decls[j]
            IN  d.kind \in {"class", "interface"} /\ d.name # "Error"
                /\ SeqIncludes(d.methods, methodName)

\* C23: a method of a class is emitted with override whenever a declaration its
\* extends clause resolves to declares a method of the same name, and whenever
\* it is toString, equals or hashCode without parameters.
C23_MethodOverrideMirrorsProperty ==
    Returned =>
        \A i \in 1..Len(call.sourceFile.statements) :
            LET declaration == call.sourceFile.statements[i]
            IN  declaration.kind = "class" =>
                    \A k \in 1..Len(declaration.methods) :
                        LET method == declaration.methods[k]
                        IN  (\/ InheritsMethod(declaration, method.name)
                             \/ (SeqIncludes(overrideMethods, method.name)
                                 /\ Len(method.params) = 0))
                                => Occurrences(AllText, "override fun " \o method.name \o "(") > 0

\* The parameters of the constructors, of the methods and of the function that
\* a declaration is.
DeclaredParams(declaration) ==
    UNION {{declaration.constructors[i].params[k] :
               k \in 1..Len(declaration.constructors[i].params)} :
           i \in 1..Len(declaration.constructors)}
    \cup UNION {{declaration.methods[i].params[k] :
                    k \in 1..Len(declaration.methods[i].params)} :
                i \in 1..Len(declaration.methods)}
    \cup {declaration.params[k] : k \in 1..Len(declaration.params)}

OptionalMarker == "? = definedExternally"

\* The first comma or closing parenthesis after position i of the emitted text.
ParamEnd(i) ==
    CHOOSE j \in (i + 1)..Len(AllText) :
        /\ SubSeq(AllText, j, j) \in {",", ")"}
        /\ \A k \in (i + 1)..(j - 1) : SubSeq(AllText, k, k) \notin {",", ")"}

\* The emitted parameters of the name, each from its name to its end.
RenderedParams(name) ==
    {SubSeq(AllText, i + 1, ParamEnd(i) - 1) : i \in Positions(AllText, "(" \o name \o ": ")}
    \cup {SubSeq(AllText, i + 2, ParamEnd(i) - 1) :
             i \in Positions(AllText, ", " \o name \o ": ")}

\* C24: a parameter of a constructor, of an instance method, of a static method
\* or of a top-level function is emitted with "? = definedExternally" exactly
\* when it is optional.
C24_OptionalParameterMarker ==
    Returned =>
        \A i \in 1..Len(call.sourceFile.statements) :
            \A param \in DeclaredParams(call.sourceFile.statements[i]) :
                PlainIdentifier(param.name) =>
                    /\ RenderedParams(param.name) # {}
                    /\ \A rendered \in RenderedParams(param.name) :
                           EndsWith(rendered, OptionalMarker) <=> param.optional

\* The first closing angle bracket after position i of the emitted text.
ListEnd(i) ==
    CHOOSE j \in (i + 1)..Len(AllText) :
        /\ SubSeq(AllText, j, j) = ">"
        /\ \A k \in (i + 1)..(j - 1) : SubSeq(AllText, k, k) # ">"

\* The names between the angle bracket at position i and its closing bracket.
GenericListAt(i) == Split(SubSeq(AllText, i + 1, ListEnd(i) - 1), ", ")

\* The positions of the generic lists of the class and of the method named name.
ClassListsOf(name) ==
    {i + Len("external class " \o name) :
        i \in Positions(AllText, "external class " \o name \o "<")}

MethodListsOf(name) ==
    {i + Len("fun ") : i \in {p \in Positions(AllText, "fun <") :
        LET end == ListEnd(p + Len("fun "))
        IN  SubSeq(AllText, end + 1, end + Len(name) + 2) = " " \o name \o "("}}

NeverDefaulted(typeParams) ==
    {typeParams[k].name : k \in {n \in 1..Len(typeParams) : typeParams[n].default = "never"}}

\* C25: the name of a type parameter whose default is never stands in no
\* generic list emitted for its class or for its method.
C25_NeverDefaultOmitted ==
    Returned =>
        \A i \in 1..Len(call.sourceFile.statements) :
            LET declaration == call.sourceFile.statements[i]
            IN  declaration.kind = "class" =>
                    /\ \A name \in NeverDefaulted(declaration.typeParams) :
                           \A at \in ClassListsOf(declaration.name) :
                               ~SeqIncludes(GenericListAt(at), name)
                    /\ \A k \in 1..Len(declaration.methods) :
                           \A name \in NeverDefaulted(declaration.methods[k].typeParams) :
                               \A at \in MethodListsOf(declaration.methods[k].name) :
                                   ~SeqIncludes(GenericListAt(at), name)

\* The type parameters of a declaration and of its methods that bear a constraint.
ConstrainedParams(declaration) ==
    {declaration.typeParams[k].name :
        k \in {n \in 1..Len(declaration.typeParams) :
                  declaration.typeParams[n].constraint # ""}}
    \cup UNION {{declaration.methods[i].typeParams[k].name :
                    k \in {n \in 1..Len(declaration.methods[i].typeParams) :
                              declaration.methods[i].typeParams[n].constraint # ""}} :
                i \in 1..Len(declaration.methods)}

LooseMarkers == {"Any", "dynamic", "Unit"}

\* C26: no where clause of a class, an interface, a method or a type alias holds
\* an entry whose bound is Any, dynamic or Unit, alone or followed by a comment.
C26_NoLooseBoundInWhere ==
    Returned =>
        \A i \in 1..Len(call.sourceFile.statements) :
            \A name \in ConstrainedParams(call.sourceFile.statements[i]) :
                \A marker \in LooseMarkers :
                    Occurrences(AllText, " " \o name \o " : " \o marker \o " ") = 0

\* The names of the type parameters of the declarations ds, one list after the other.
RECURSIVE NamesOfAll(_)
NamesOfAll(ds) ==
    IF Len(ds) = 0 THEN <<>>
    ELSE [k \in 1..Len(Head(ds).typeParams) |-> Head(ds).typeParams[k].name]
         \o NamesOfAll(Tail(ds))

\* The interface declarations of the unit that bear the name.
InterfacesNamed(name) ==
    Filter(LAMBDA d : d.kind = "interface" /\ d.name = name, call.sourceFile.statements)

InterfaceListsOf(name) ==
    {i + Len("external interface " \o name) :
        i \in Positions(AllText, "external interface " \o name \o "<")}

\* C27: the generic list emitted for an interface holds the type-parameter
\* names of all interface declarations of its symbol in declaration order,
\* each name once at its first occurrence; no list holds a name twice.
C27_InterfaceGenericsMerged ==
    Returned =>
        \A i \in 1..Len(call.sourceFile.statements) :
            LET declaration == call.sourceFile.statements[i]
                merged == Unique(NamesOfAll(InterfacesNamed(declaration.name)))
            IN  declaration.kind = "interface" =>
                    /\ Occurrences(AllText, "external interface " \o declaration.name) > 0
                    /\ (Len(merged) = 0) = (InterfaceListsOf(declaration.name) = {})
                    /\ \A at \in InterfaceListsOf(declaration.name) :
                           /\ GenericListAt(at) = merged
                           /\ Unique(GenericListAt(at)) = GenericListAt(at)

\* interface M<T> and interface M<T, U> in one unit, both emitted as M<T, U>.
C27_Witness ==
    /\ Returned
    /\ call.sourceFile.statements = <<InterfaceM1, InterfaceM2>>
    /\ Occurrences(AllText, "external interface M<T, U> ") = 2

\* The type aliases of the unit that pass the skip tests of generateTypeAlias.
PassingAliases ==
    Filter(LAMBDA d : /\ d.kind = "typeAlias"
                      /\ ~SeqIncludes(doNotExpose, d.name)
                      /\ ~StartsWith(d.name, "__"),
           call.sourceFile.statements)

\* The entries of the alias artifact: each one is a typealias or a creator function.
AliasEntries ==
    LET texts == {result.outputs[i].text : i \in ArtifactsNamed("index.types.d.kt")}
    IN  IF texts = {} THEN 0
        ELSE LET text == CHOOSE t \in texts : TRUE
             IN  Occurrences(text, "typealias ") + Occurrences(text, "fun ")

\* C28: an invocation buffers exactly one entry for each type alias that is not
\* in the do-not-expose list and does not start with two underscores, whichever
\* branch handles it, and none for a skipped alias.
C28_OneEntryPerAlias ==
    (Returned /\ call.aliases = <<>>) =>
        /\ result.pushed = Len(PassingAliases)
        /\ AliasEntries = Len(PassingAliases)

\* type __Hidden is skipped and type O = { p: string; q?: "a" } buffers its creator.
C28_Witness ==
    /\ Returned
    /\ call.sourceFile.statements = <<AliasPrivate, AliasObject>>
    /\ result.pushed = 1
    /\ AliasEntries = 1

\* The containers of the unit that produce an artifact: each named module and,
\* beside modules, the top level when it holds a statement; without modules the
\* unit itself.
ProducingContainers ==
    LET modules == OfKind(call.sourceFile.statements, "module")
    IN  IF Len(modules) > 0
        THEN Len(modules)
             + (IF Len(call.sourceFile.statements) > Len(modules) THEN 1 ELSE 0)
        ELSE 1

\* C29: no artifact of an invocation overwrites another one: the returned map
\* holds one artifact for each container that produced output, and one more
\* when the alias buffer is not empty.
C29_NoArtifactOverwritten ==
    Returned =>
        Len(result.outputs)
            = ProducingContainers
              + (IF Len(call.aliases) + result.pushed > 0 THEN 1 ELSE 0)

\* The imports a config object of the host can come to hold.
KnownImports == {"kotlin.js.*", "kotlin.collections.List"}

\* How often each import line stands in a text.
ImportCounts(text) == [imp \in KnownImports |-> Occurrences(text, "import " \o imp)]

\* The artifacts of containers in a returned map: all but the alias artifact.
ContainerArtifacts(res) ==
    {i \in 1..Len(res.outputs) : ~EndsWith(res.outputs[i].name, ".types.d.kt")}

KeptInvocation(c, res) ==
    c.op = "tykonFromSource" /\ "kept" \in DOMAIN c /\ ~res.threw

\* C30: invocations with one config object emit the same import lines every
\* time: an invocation adds kotlin.js.* to the list of the object at most once,
\* no artifact imports it twice, and from one invocation to the next the list
\* does not grow and the import lines of the artifacts are the same.
C30_ImportLinesStable ==
    [][/\ KeptInvocation(call', result') =>
            /\ Len(configObject'.imports) <= Len(configObject.imports) + 1
            /\ Len(SelectSeq(configObject'.imports, LAMBDA imp : imp = "kotlin.js.*")) <= 1
            /\ \A j \in ContainerArtifacts(result') :
                   ImportCounts(result'.outputs[j].text)["kotlin.js.*"] <= 1
       /\ (KeptInvocation(call, result) /\ KeptInvocation(call', result')) =>
            /\ configObject'.imports = configObject.imports
            /\ \A i \in ContainerArtifacts(result) : \A j \in ContainerArtifacts(result') :
                   ImportCounts(result.outputs[i].text)
                       = ImportCounts(result'.outputs[j].text)]_vars

\* The second invocation with a config object that came without an import
\* list: the list the first invocation made is handed over and left as it is.
C30_Witness ==
    /\ KeptInvocation(call, result)
    /\ invocations = 2
    /\ call.config.imports = <<"kotlin.js.*">>
    /\ configObject.imports = <<"kotlin.js.*">>
    /\ ContainerArtifacts(result) # {}
    /\ \A j \in ContainerArtifacts(result) :
           ImportCounts(result.outputs[j].text)["kotlin.js.*"] = 1

====
